---- MODULE Spec2Model ----
(***************************************************************************)
(* A model of src/shaders/gradients/SkGradientShaderBase.cpp: the gradient *)
(* descriptor, ColorStopOptimizer, the SkGradientShaderBase constructor,   *)
(* the table builders of onAppendStages and onProgram, the tile modes and  *)
(* the per-pixel lookup.                                                   *)
(*                                                                         *)
(* Scalars are exact rationals <<n, d>> in lowest terms with d > 0; the    *)
(* value <<1, 0>> stands for every non-finite float (the result of a       *)
(* division by zero and whatever is computed from it).  Floating-point     *)
(* rounding is not modelled.  A color has two channels, <<v, a>>: one      *)
(* color channel and alpha; the source treats its three color channels     *)
(* alike.                                                                  *)
(***************************************************************************)
EXTENDS Integers, Sequences, FiniteSets, TLC

VARIABLES
    rawDesc,    \* the descriptor the caller asked for
    desc,       \* the descriptor the constructor is given
    pc,         \* "raw", "optimized", "constructed", "drawn"
    shader,     \* the fields of the constructed SkGradientShaderBase
    pipeline,   \* the stages onAppendStages appended, <<>> before it ran
    program,    \* the uniforms onProgram built
    pixelT,     \* the gradient parameter of the pixel drawn
    stageOut,   \* what the pipeline computed for the pixel
    progOut,    \* what the program computed for the pixel
    call        \* a call of one of the static functions: its arguments and result

vars == <<rawDesc, desc, pc, shader, pipeline, program, pixelT, stageOut, progOut, call>>

----------------------------------------------------------------------------
(* Bounds and input sets *)

\* The largest number of stops a caller passes (desc.fCount).
MaxCount == 3

\* Caller colors <<v, a>>: one opaque, one not.
Colors == { <<0, 1>>, <<2, 0>> }

\* Caller positions of the gradients that are drawn.
PosVals == { <<0, 1>>, <<1, 4>>, <<1, 2>>, <<1, 1>> }

\* Caller positions of the gradients that are only normalized: below 0, 0,
\* within tolerance of 0, 1/2, within half a tolerance of 1/2, 1, above 1.
RawPosVals ==
    { <<-1, 2>>, <<0, 1>>, <<1, 4096>>, <<1, 2>>, <<4097, 8192>>, <<1, 1>>, <<3, 2>> }

\* The gradient parameters t the pixels of a draw carry.
TVals == { <<-1, 2>>, <<0, 1>>, <<1, 4>>, <<1, 2>>, <<3, 4>>, <<1, 1>>, <<3, 2>> }

TileModes == { "kClamp", "kRepeat", "kMirror", "kDecal" }

\* Positions passed to the static functions: below 0, 0, inside, 1, above 1.
CallPosVals == { <<-1, 2>>, <<0, 1>>, <<1, 2>>, <<1, 1>>, <<3, 2>> }

\* Tile mode values passed to the static functions: the four of the
\* enumeration and one on either side of them.
CallModeValues == -1..4

\* Caller positions of the gradients that are serialized: below 0, 0, within
\* tolerance of 1/2, 1.
SerialPosVals == { <<-1, 2>>, <<0, 1>>, <<4097, 8192>>, <<1, 1>> }

\* Caller positions and pixel parameters of the gradients whose methods are
\* called with a matrix that may have no inverse.
UsePosVals == { <<0, 1>>, <<1, 4>>, <<1, 1>> }
\* Their colors <<v, a>>: one opaque and not black, one transparent.
UseColors == { <<2, 1>>, <<0, 0>> }
UseTVals == { <<-1, 2>>, <<1, 2>> }

\* The local-to-device matrices of a draw, as far as the shader tells them apart.
Matrices == { "invertible", "singular" }

\* Caller positions of the gradients that several threads use at once (absent,
\* or every stop at 1/2), and the threads.
ThreadPosVals == { <<1, 2>> }
Threads == { "t1", "t2" }

\* A null pointer (desc.fPos, fOrigPos) and a slot nothing has been stored in.
nullptr == <<>>
None == <<>>

----------------------------------------------------------------------------
(* Scalars *)

Abs(x) == IF x < 0 THEN -x ELSE x

RECURSIVE GCD(_, _)
GCD(a, b) == IF b = 0 THEN a ELSE GCD(b, a % b)

NonFinite == <<1, 0>>
IsFinite(x) == x[2] # 0

\* n/d in lowest terms, d # 0.
Rat(n, d) ==
    LET g == GCD(Abs(n), Abs(d))
        s == IF d < 0 THEN -1 ELSE 1
    IN  <<s * (n \div g), s * (d \div g)>>

Zero == <<0, 1>>
One == <<1, 1>>
Half == <<1, 2>>
Two == <<2, 1>>
IntToScalar(n) == <<n, 1>>

RAdd(x, y) ==
    IF IsFinite(x) /\ IsFinite(y)
    THEN LET g == GCD(x[2], y[2])
         IN  Rat(x[1] * (y[2] \div g) + y[1] * (x[2] \div g), (x[2] \div g) * y[2])
    ELSE NonFinite

RNeg(x) == IF IsFinite(x) THEN <<-x[1], x[2]>> ELSE NonFinite

RSub(x, y) == RAdd(x, RNeg(y))

RMul(x, y) ==
    IF IsFinite(x) /\ IsFinite(y)
    THEN LET a == Rat(x[1], y[2])
             b == Rat(y[1], x[2])
         IN  <<a[1] * b[1], a[2] * b[2]>>
    ELSE NonFinite

\* A float division: by zero it gives an infinity or a NaN, never a trap.
RDiv(x, y) ==
    IF IsFinite(x) /\ IsFinite(y) /\ y[1] # 0
    THEN RMul(x, Rat(y[2], y[1]))
    ELSE NonFinite

\* Comparisons with a non-finite operand are false, as with a NaN.
RLt(x, y) == IsFinite(x) /\ IsFinite(y) /\ x[1] * y[2] < y[1] * x[2]
RLe(x, y) == IsFinite(x) /\ IsFinite(y) /\ x[1] * y[2] <= y[1] * x[2]
RGe(x, y) == RLe(y, x)
RGt(x, y) == RLt(y, x)

\* std::min and std::max as the library writes them.
RMin(a, b) == IF RLt(b, a) THEN b ELSE a
RMax(a, b) == IF RLt(a, b) THEN b ELSE a

RAbs(x) == IF IsFinite(x) THEN <<Abs(x[1]), x[2]>> ELSE NonFinite

\* floor(x) as an integer, x finite.
FloorInt(x) == x[1] \div x[2]
RFloor(x) == IF IsFinite(x) THEN <<FloorInt(x), 1>> ELSE NonFinite

\* trunc(x): the integer toward zero (the float-to-int conversion).
TruncInt(x) == IF x[1] >= 0 THEN x[1] \div x[2] ELSE -((-x[1]) \div x[2])

clamp01(t) == RMax(Zero, RMin(t, One))

\* SkTPin(x, lo, hi) == std::max(lo, std::min(x, hi))
SkTPin(x, lo, hi) == RMax(lo, RMin(x, hi))

\* SK_ScalarNearlyZero == SK_Scalar1 / (1 << 12)
NearlyZeroShift == 12
SK_ScalarNearlyZero == <<1, 2 ^ NearlyZeroShift>>

SkScalarNearlyEqual(x, y) == RLe(RAbs(RSub(x, y)), SK_ScalarNearlyZero)

----------------------------------------------------------------------------
(* Colors: tuples of channels *)

Chans(c) == DOMAIN c

\* A caller color as float channels.
ToScalars(c) == [i \in Chans(c) |-> IntToScalar(c[i])]

CSub(a, b) == [i \in Chans(a) |-> RSub(a[i], b[i])]
CMulS(a, s) == [i \in Chans(a) |-> RMul(a[i], s)]
CDivS(a, s) == [i \in Chans(a) |-> RDiv(a[i], s)]
CZero(a) == [i \in Chans(a) |-> Zero]
\* t * F + B, per channel.
CMad(t, F, B) == [i \in Chans(F) |-> RAdd(RMul(t, F[i]), B[i])]
CFinite(a) == \A i \in Chans(a) : IsFinite(a[i])

----------------------------------------------------------------------------
(* SkGradientShaderBase::Descriptor and ColorStopOptimizer *)

\* The arrays of a descriptor are the fCount entries its pointers give access to.
Descriptor(colors, pos, count, mode, inPremul) ==
    [fColors |-> colors, fPos |-> pos, fCount |-> count, fTileMode |-> mode,
     fInPremul |-> inPremul]

\* d is a descriptor a caller can pass with positions from P: fCount > 1 (the
\* constructors assert it).
DescriptorOver(d, P) ==
    \E n \in 2..MaxCount :
        \E c \in [1..n -> Colors] :
            \E p \in {nullptr} \cup [1..n -> P] :
                \E m \in TileModes :
                    d = Descriptor(c, p, n, m, FALSE)

\* A plausible slip: the leftmost stop is dropped whatever the tile mode and
\* the colors are.
ColorStopOptimizer_AlwaysLeft(colors, pos, count, mode) ==
    IF pos = nullptr \/ count # 3
    THEN [fColors |-> colors, fPos |-> pos, fCount |-> count]
    ELSE IF /\ SkScalarNearlyEqual(pos[1], Zero)
            /\ SkScalarNearlyEqual(pos[2], Zero)
            /\ SkScalarNearlyEqual(pos[3], One)
    THEN [fColors |-> SubSeq(colors, 2, 3), fPos |-> SubSeq(pos, 2, 3), fCount |-> 2]
    ELSE IF /\ SkScalarNearlyEqual(pos[1], Zero)
            /\ SkScalarNearlyEqual(pos[2], One)
            /\ SkScalarNearlyEqual(pos[3], One)
            /\ (mode = "kRepeat" \/ mode = "kMirror" \/ colors[2] = colors[3])
    THEN [fColors |-> SubSeq(colors, 1, 2), fPos |-> SubSeq(pos, 1, 2), fCount |-> 2]
    ELSE [fColors |-> colors, fPos |-> pos, fCount |-> count]

\* The optimizer's result: the colors, positions and count the factories go on with.
ColorStopOptimizer(colors, pos, count, mode) ==
    IF pos = nullptr \/ count # 3
    THEN [fColors |-> colors, fPos |-> pos, fCount |-> count]
    ELSE IF /\ SkScalarNearlyEqual(pos[1], Zero)
            /\ SkScalarNearlyEqual(pos[2], Zero)
            /\ SkScalarNearlyEqual(pos[3], One)
    THEN IF mode = "kRepeat" \/ mode = "kMirror" \/ colors[1] = colors[2]
         THEN \* Ignore the leftmost color/pos.
              [fColors |-> SubSeq(colors, 2, 3), fPos |-> SubSeq(pos, 2, 3), fCount |-> 2]
         ELSE [fColors |-> colors, fPos |-> pos, fCount |-> count]
    ELSE IF /\ SkScalarNearlyEqual(pos[1], Zero)
            /\ SkScalarNearlyEqual(pos[2], One)
            /\ SkScalarNearlyEqual(pos[3], One)
    THEN IF mode = "kRepeat" \/ mode = "kMirror" \/ colors[2] = colors[3]
         THEN \* Ignore the rightmost color/pos.
              [fColors |-> SubSeq(colors, 1, 2), fPos |-> SubSeq(pos, 1, 2), fCount |-> 2]
         ELSE [fColors |-> colors, fPos |-> pos, fCount |-> count]
    ELSE [fColors |-> colors, fPos |-> pos, fCount |-> count]

----------------------------------------------------------------------------
(* The SkGradientShaderBase constructor *)

\* A plausible slip: the position is pinned to [0, 1], not to [prev, 1].
PinnedPos_Clamp01(d, i, prev) ==
    IF i = d.fCount THEN One ELSE SkTPin(d.fPos[i + 1], Zero, One)

\* A plausible slip: the caller's position is stored as given.
PinnedPos_Unpinned(d, i, prev) ==
    IF i = d.fCount THEN One ELSE d.fPos[i + 1]

\* Pin the last value to 1.0, and make sure pos is monotonic.
PinnedPos(d, i, prev) ==
    IF i = d.fCount THEN One ELSE SkTPin(d.fPos[i + 1], prev, One)

\* A plausible slip: the gaps are compared exactly.
UniformGap_Exact(uniformStep, curr, prev) == uniformStep = RSub(curr, prev)

\* A plausible slip: the gap is taken as prev - curr.
UniformGap_Reversed(uniformStep, curr, prev) ==
    SkScalarNearlyEqual(uniformStep, RSub(prev, curr))

\* uniformStops &= SkScalarNearlyEqual(uniformStep, curr - prev)
UniformGap(uniformStep, curr, prev) == SkScalarNearlyEqual(uniformStep, RSub(curr, prev))

\* The loop over the caller's positions, C index i (fPos[i + 1] here), up to
\* count - 1; acc is what has been written through origPosPtr so far.
RECURSIVE PinLoop(_, _, _, _, _, _, _)
PinLoop(d, i, count, prev, uniformStep, acc, uniformStops) ==
    IF i >= count
    THEN [pos |-> acc, uniformStops |-> uniformStops]
    ELSE LET curr == PinnedPos(d, i, prev)
         IN  PinLoop(d, i + 1, count, curr, uniformStep, Append(acc, curr),
                     uniformStops /\ UniformGap(uniformStep, curr, prev))

\* A plausible slip: a first position within tolerance of 0 counts as 0.
needsFirst_Nearly(d) == d.fPos # nullptr /\ ~SkScalarNearlyEqual(d.fPos[1], Zero)

\* A plausible slip: the last position is compared with 0, as the first is.
needsLast_CopiedFirst(d) == d.fPos # nullptr /\ d.fPos[d.fCount] # Zero

\* check if we need to add in start and/or end position/colors
needsFirst(d) == d.fPos # nullptr /\ d.fPos[1] # Zero
needsLast(d) == d.fPos # nullptr /\ d.fPos[d.fCount] # One

SkGradientShaderBase(d) ==
    LET colorCount == d.fCount + (IF needsFirst(d) THEN 1 ELSE 0)
                               + (IF needsLast(d) THEN 1 ELSE 0)
        origColors == (IF needsFirst(d) THEN <<d.fColors[1]>> ELSE <<>>)
                      \o d.fColors
                      \o (IF needsLast(d) THEN <<d.fColors[d.fCount]>> ELSE <<>>)
        startIndex == IF needsFirst(d) THEN 0 ELSE 1
        count      == d.fCount + (IF needsLast(d) THEN 1 ELSE 0)
        pinned     == PinLoop(d, startIndex, count, Zero,
                              RSub(d.fPos[startIndex + 1], Zero), <<Zero>>, TRUE)
    IN  [fColorCount      |-> colorCount,
         fOrigColors4f    |-> origColors,
         \* What the position storage holds, whether or not fOrigPos points to it.
         fPosStorage      |-> IF d.fPos = nullptr THEN nullptr ELSE pinned.pos,
         \* If the stops are uniform, treat them as implicit.
         fOrigPos         |-> IF d.fPos = nullptr \/ pinned.uniformStops
                              THEN nullptr ELSE pinned.pos,
         fTileMode        |-> d.fTileMode,
         fInPremul        |-> d.fInPremul,
         fColorsAreOpaque |-> \A k \in 1..d.fCount : d.fColors[k][2] = 1]

\* SkGradientShaderBase::getPos
getPos(sh, i) ==
    IF sh.fOrigPos # nullptr THEN sh.fOrigPos[i + 1]
    ELSE Rat(i, sh.fColorCount - 1)

----------------------------------------------------------------------------
(* Arrays and the transformed colors *)

\* C arrays are 0-based and sequences 1-based: a[i] in the source is a[i + 1]
\* here.  Put stores v at C index i; slots below i never stored in hold None.
Put(a, i, v) ==
    [k \in 1..(IF i + 1 > Len(a) THEN i + 1 ELSE Len(a)) |->
        IF k = i + 1 THEN v ELSE IF k <= Len(a) THEN a[k] ELSE None]

\* The transient colors of an evaluation: the stored colors as floats, in the
\* destination space (taken to be the source space), premultiplied if the
\* interpolation is in premul.
SkColor4fXformer(colors, inPremul) ==
    [k \in 1..Len(colors) |->
        IF inPremul
        THEN <<IntToScalar(colors[k][1] * colors[k][2]), IntToScalar(colors[k][2])>>
        ELSE ToScalars(colors[k])]

\* premul: the color channel times alpha.
Premul(c) == <<RMul(c[1], c[2]), c[2]>>

----------------------------------------------------------------------------
(* The table of onAppendStages: SkRasterPipeline_GradientCtx *)

add_stop_color(ctx, stop, Fs, Bs) ==
    [ctx EXCEPT !.fs = Put(ctx.fs, stop, Fs), !.bs = Put(ctx.bs, stop, Bs)]

add_const_color(ctx, stop, color) ==
    add_stop_color(ctx, stop, CZero(color), color)

\* A plausible slip: the bias is taken at the right end of the stop's range.
init_stop_evenly_BiasRight(ctx, gapCount, stop, c_l, c_r) ==
    LET Fs == CMulS(CSub(c_r, c_l), gapCount)
        Bs == CSub(c_l, CMulS(Fs, RDiv(IntToScalar(stop + 1), gapCount)))
    IN  add_stop_color(ctx, stop, Fs, Bs)

\* F and B so that color = F*t + B on the stop's range; stops are 1/gapCount apart.
init_stop_evenly(ctx, gapCount, stop, c_l, c_r) ==
    LET Fs == CMulS(CSub(c_r, c_l), gapCount)
        Bs == CSub(c_l, CMulS(Fs, RDiv(IntToScalar(stop), gapCount)))
    IN  add_stop_color(ctx, stop, Fs, Bs)

\* A plausible slip: the bias is taken at the right end of the stop's range.
init_stop_pos_BiasRight(ctx, stop, t_l, t_r, c_l, c_r) ==
    LET Fs == CDivS(CSub(c_r, c_l), RSub(t_r, t_l))
        Bs == CSub(c_l, CMulS(Fs, t_r))
    IN  add_stop_color([ctx EXCEPT !.ts = Put(ctx.ts, stop, t_l)], stop, Fs, Bs)

\* For each stop a bias B and a scale factor F, such that for any t between
\* stops n and n+1 the color is B[n] + F[n]*t.
init_stop_pos(ctx, stop, t_l, t_r, c_l, c_r) ==
    LET Fs == CDivS(CSub(c_r, c_l), RSub(t_r, t_l))
        Bs == CSub(c_l, CMulS(Fs, t_l))
    IN  add_stop_color([ctx EXCEPT !.ts = Put(ctx.ts, stop, t_l)], stop, Fs, Bs)

\* A plausible slip: <= for <.
StageHardStopGuard_Le(t_l, t_r) == RLe(t_l, t_r)

\* The scale is computed for a pair of stops only if t_l < t_r.
StageHardStopGuard(t_l, t_r) == RLt(t_l, t_r)

\* for (size_t i = 0; i < stopCount - 1; i++) of the evenly spaced branch.
RECURSIVE EvenLoop(_, _, _, _, _, _)
EvenLoop(pmColors, gapCount, i, stopCount, c_l, ctx) ==
    IF i >= stopCount - 1
    THEN [ctx |-> ctx, c_l |-> c_l]
    ELSE LET c_r == pmColors[i + 2]
         IN  EvenLoop(pmColors, gapCount, i + 1, stopCount, c_r,
                      init_stop_evenly(ctx, gapCount, i, c_l, c_r))

\* for (int i = firstStop; i < lastStop; i++) of the arbitrary stops branch.
RECURSIVE PosLoop(_, _, _, _, _, _, _)
PosLoop(pos, pmColors, i, lastStop, t_l, c_l, ctx) ==
    IF i >= lastStop
    THEN [ctx |-> ctx, t_l |-> t_l, c_l |-> c_l]
    ELSE LET t_r == pos[i + 2]
             c_r == pmColors[i + 2]
         IN  PosLoop(pos, pmColors, i + 1, lastStop, t_r, c_r,
                     IF StageHardStopGuard(t_l, t_r)
                     THEN [init_stop_pos(ctx, ctx.stopCount, t_l, t_r, c_l, c_r)
                              EXCEPT !.stopCount = ctx.stopCount + 1]
                     ELSE ctx)

EmptyCtx(sh) ==
    [fs |-> <<>>, bs |-> <<>>, ts |-> <<>>, stopCount |-> 0,
     interpolatedInPremul |-> sh.fInPremul]

\* A plausible slip: the first stop is skipped whatever its color.
FirstStop_SkipAlways(sh) == IF sh.fColorCount > 2 THEN 1 ELSE 0

\* The first and last stop the arbitrary stops branch builds its table from.
FirstStop(sh) ==
    IF sh.fColorCount > 2
    THEN (IF sh.fOrigColors4f[1] # sh.fOrigColors4f[2] THEN 0 ELSE 1)
    ELSE 0

LastStop(sh) ==
    IF sh.fColorCount > 2
    THEN (IF sh.fOrigColors4f[sh.fColorCount - 1] # sh.fOrigColors4f[sh.fColorCount]
          THEN sh.fColorCount - 1 ELSE sh.fColorCount - 2)
    ELSE 1

\* The lookup stage onAppendStages appends, with its context.
GradientStage(sh) ==
    LET pmColors == SkColor4fXformer(sh.fOrigColors4f, sh.fInPremul)
    IN  IF sh.fColorCount = 2 /\ sh.fOrigPos = nullptr
        THEN [op  |-> "evenly_spaced_2_stop_gradient",
              ctx |-> [f |-> CSub(pmColors[2], pmColors[1]), b |-> pmColors[1],
                       interpolatedInPremul |-> sh.fInPremul]]
        ELSE IF sh.fOrigPos = nullptr
        THEN LET stopCount == sh.fColorCount
                 gapCount  == IntToScalar(stopCount - 1)
                 done == EvenLoop(pmColors, gapCount, 0, stopCount, pmColors[1],
                                  EmptyCtx(sh))
             IN  [op  |-> "evenly_spaced_gradient",
                  ctx |-> [add_const_color(done.ctx, stopCount - 1, done.c_l)
                             EXCEPT !.stopCount = stopCount]]
        ELSE LET firstStop == FirstStop(sh)
                 lastStop  == LastStop(sh)
                 c0   == pmColors[firstStop + 1]
                 ctx0 == [add_const_color(EmptyCtx(sh), 0, c0) EXCEPT !.stopCount = 1]
                 done == PosLoop(sh.fOrigPos, pmColors, firstStop, lastStop,
                                 sh.fOrigPos[firstStop + 1], c0, ctx0)
                 ctx1 == [done.ctx EXCEPT !.ts = Put(done.ctx.ts, done.ctx.stopCount,
                                                     done.t_l)]
             IN  [op  |-> "gradient",
                  ctx |-> [add_const_color(ctx1, ctx1.stopCount, done.c_l)
                             EXCEPT !.stopCount = ctx1.stopCount + 1]]

Stage(op) == [op |-> op, ctx |-> <<>>]

\* limit_x = SkBits2Float(SkFloat2Bits(1.0f) + 1): the float after 1.
MantissaBits == 23
DecalLimitX == Rat(2 ^ MantissaBits + 1, 2 ^ MantissaBits)

\* A plausible slip: clamp_x_1 is appended whether or not positions are stored.
TileStages_AlwaysClamp(sh) ==
    CASE sh.fTileMode = "kMirror" -> <<Stage("mirror_x_1")>>
      [] sh.fTileMode = "kRepeat" -> <<Stage("repeat_x_1")>>
      [] sh.fTileMode = "kDecal"  ->
            <<[op |-> "decal_x", ctx |-> [limit_x |-> DecalLimitX]], Stage("clamp_x_1")>>
      [] sh.fTileMode = "kClamp"  -> <<Stage("clamp_x_1")>>

\* The stages appended for the tile mode.
TileStages(sh) ==
    LET clampStage == IF sh.fOrigPos = nullptr THEN <<Stage("clamp_x_1")>> ELSE <<>>
    IN  CASE sh.fTileMode = "kMirror" -> <<Stage("mirror_x_1")>>
          [] sh.fTileMode = "kRepeat" -> <<Stage("repeat_x_1")>>
          [] sh.fTileMode = "kDecal"  ->
                <<[op |-> "decal_x", ctx |-> [limit_x |-> DecalLimitX]]>> \o clampStage
          [] sh.fTileMode = "kClamp"  -> clampStage

\* A plausible slip: premul is appended before check_decal_mask.
onAppendStages_PremulFirst(sh) ==
    <<Stage("seed_shader"), Stage("matrix")>>
    \o TileStages(sh)
    \o <<GradientStage(sh)>>
    \o (IF ~sh.fInPremul /\ ~sh.fColorsAreOpaque THEN <<Stage("premul")>> ELSE <<>>)
    \o (IF sh.fTileMode = "kDecal" THEN <<Stage("check_decal_mask")>> ELSE <<>>)

\* The sequence of stages onAppendStages appends (the total inverse exists).
onAppendStages(sh) ==
    <<Stage("seed_shader"), Stage("matrix")>>
    \o TileStages(sh)
    \o <<GradientStage(sh)>>
    \o (IF sh.fTileMode = "kDecal" THEN <<Stage("check_decal_mask")>> ELSE <<>>)
    \o (IF ~sh.fInPremul /\ ~sh.fColorsAreOpaque THEN <<Stage("premul")>> ELSE <<>>)

----------------------------------------------------------------------------
(* Running the appended stages on one pixel *)

\* A read of a table at C index ix; a slot outside the table, or one never
\* stored in, holds no defined value.
Garbage == <<NonFinite, NonFinite>>
ReadAt(a, ix) ==
    IF ix + 1 \in 1..Len(a) /\ a[ix + 1] # None THEN a[ix + 1] ELSE Garbage

\* The registers of the pipeline: r carries t, then the color is in color;
\* lookupT, ix and lookup keep what the lookup stage was given, selected and
\* computed.
Registers(t) ==
    [r |-> t, color |-> None, lookup |-> None, lookupT |-> None, ix |-> -1,
     mask |-> TRUE]

\* gradient: ix counts the breakpoints ts[1 .. stopCount-1] that are <= t.
BreakpointsAtOrBelow(ts, stopCount, t) ==
    Cardinality({ i \in 1..(stopCount - 1) :
                    i + 1 <= Len(ts) /\ ts[i + 1] # None /\ RGe(t, ts[i + 1]) })

RunStage(st, regs) ==
    CASE st.op = "seed_shader" -> regs
      [] st.op = "matrix"      -> regs
      [] st.op = "clamp_x_1"   -> [regs EXCEPT !.r = clamp01(regs.r)]
      [] st.op = "repeat_x_1"  ->
            [regs EXCEPT !.r = clamp01(RSub(regs.r, RFloor(regs.r)))]
      [] st.op = "mirror_x_1"  ->
            [regs EXCEPT !.r =
                clamp01(RAbs(RSub(RSub(RSub(regs.r, One),
                                       RMul(Two, RFloor(RMul(RSub(regs.r, One), Half)))),
                                  One)))]
      [] st.op = "decal_x"     ->
            [regs EXCEPT !.mask = RLe(Zero, regs.r) /\ RLt(regs.r, st.ctx.limit_x)]
      [] st.op = "evenly_spaced_2_stop_gradient" ->
            LET c == CMad(regs.r, st.ctx.f, st.ctx.b)
            IN  [regs EXCEPT !.color = c, !.lookup = c, !.ix = 0, !.lookupT = regs.r]
      [] st.op = "evenly_spaced_gradient" ->
            LET ix == TruncInt(RMul(regs.r, IntToScalar(st.ctx.stopCount - 1)))
                c  == CMad(regs.r, ReadAt(st.ctx.fs, ix), ReadAt(st.ctx.bs, ix))
            IN  [regs EXCEPT !.color = c, !.lookup = c, !.ix = ix, !.lookupT = regs.r]
      [] st.op = "gradient" ->
            LET ix == BreakpointsAtOrBelow(st.ctx.ts, st.ctx.stopCount, regs.r)
                c  == CMad(regs.r, ReadAt(st.ctx.fs, ix), ReadAt(st.ctx.bs, ix))
            IN  [regs EXCEPT !.color = c, !.lookup = c, !.ix = ix, !.lookupT = regs.r]
      [] st.op = "check_decal_mask" ->
            [regs EXCEPT !.color = IF regs.mask THEN regs.color ELSE CZero(regs.color)]
      [] st.op = "premul" -> [regs EXCEPT !.color = Premul(regs.color)]

RECURSIVE RunStages(_, _, _)
RunStages(stages, k, regs) ==
    IF k > Len(stages) THEN regs
    ELSE RunStages(stages, k + 1, RunStage(stages[k], regs))

\* What one pixel with parameter t gets from the pipeline.
RunPipeline(stages, t) ==
    LET regs == RunStages(stages, 1, Registers(t))
    IN  [t |-> regs.lookupT, lookup |-> regs.lookup, ix |-> regs.ix,
         mask |-> regs.mask, color |-> regs.color]

----------------------------------------------------------------------------
(* onProgram *)

\* The scale is computed for a pair of stops only if t_lo < t_hi.
ProgramHardStopGuard(t_lo, t_hi) == RLt(t_lo, t_hi)

\* for (int i = 1; i < fColorCount; i++): fb and stops between adjacent stops.
RECURSIVE FBLoop(_, _, _, _, _, _, _)
FBLoop(sh, rgba, i, t_lo, color_lo, fb, stops) ==
    IF i >= sh.fColorCount
    THEN [fb |-> fb, stops |-> stops, t_lo |-> t_lo, color_lo |-> color_lo]
    ELSE LET t_hi == getPos(sh, i)
             color_hi == rgba[i + 1]
             f == CDivS(CSub(color_hi, color_lo), RSub(t_hi, t_lo))
             b == CSub(color_lo, CMulS(f, t_lo))
             hit == ProgramHardStopGuard(t_lo, t_hi)
             stops1 == IF hit THEN Append(stops, t_lo) ELSE stops
         IN  FBLoop(sh, rgba, i + 1, t_hi, color_hi,
                    IF hit THEN Put(fb, Len(stops1), [f |-> f, b |-> b]) ELSE fb,
                    stops1)

\* A plausible slip: the bias of the 2-stop branch is the second color.
ProgramTable_BiasHi(sh) ==
    LET rgba == SkColor4fXformer(sh.fOrigColors4f, sh.fInPremul)
    IN  IF sh.fColorCount = 2
        THEN [twoStop |-> TRUE, F |-> CSub(rgba[2], rgba[1]), B |-> rgba[2],
              fb |-> <<>>, stops |-> <<>>]
        ELSE LET fb0  == <<[f |-> CZero(rgba[1]), b |-> rgba[1]]>>
                 done == FBLoop(sh, rgba, 1, getPos(sh, 0), rgba[1], fb0, <<>>)
                 \* Anything >= our final t clamps to our final color.
                 stops == Append(done.stops, done.t_lo)
             IN  [twoStop |-> FALSE, F |-> None, B |-> None,
                  fb |-> Put(done.fb, Len(stops),
                             [f |-> CZero(done.color_lo), b |-> done.color_lo]),
                  stops |-> stops]

\* The uniforms the program reads: F and B of the 2-stop branch, or fb and stops.
ProgramTable(sh) ==
    LET rgba == SkColor4fXformer(sh.fOrigColors4f, sh.fInPremul)
    IN  IF sh.fColorCount = 2
        THEN [twoStop |-> TRUE, F |-> CSub(rgba[2], rgba[1]), B |-> rgba[1],
              fb |-> <<>>, stops |-> <<>>]
        ELSE LET fb0  == <<[f |-> CZero(rgba[1]), b |-> rgba[1]]>>
                 done == FBLoop(sh, rgba, 1, getPos(sh, 0), rgba[1], fb0, <<>>)
                 \* Anything >= our final t clamps to our final color.
                 stops == Append(done.stops, done.t_lo)
             IN  [twoStop |-> FALSE, F |-> None, B |-> None,
                  fb |-> Put(done.fb, Len(stops),
                             [f |-> CZero(done.color_lo), b |-> done.color_lo]),
                  stops |-> stops]

\* A plausible slip: the mirror rounds toward zero where it should round down.
ProgramTile_MirrorTrunc(mode, t) ==
    CASE mode = "kClamp"  -> t
      [] mode = "kDecal"  -> t
      [] mode = "kRepeat" -> RSub(t, RFloor(t))
      [] mode = "kMirror" ->
            LET A == RSub(t, One)
                B == IntToScalar(TruncInt(RMul(A, Half)))
            IN  RAbs(RSub(RSub(A, RAdd(B, B)), One))

\* A plausible slip: the fraction is taken by rounding toward zero.
ProgramTile_RepeatTrunc(mode, t) ==
    CASE mode = "kClamp"  -> t
      [] mode = "kDecal"  -> t
      [] mode = "kRepeat" -> RSub(t, IntToScalar(TruncInt(t)))
      [] mode = "kMirror" ->
            LET A == RSub(t, One)
                B == RFloor(RMul(A, Half))
            IN  RAbs(RSub(RSub(A, RAdd(B, B)), One))

\* t after the tile mode switch.
ProgramTile(mode, t) ==
    CASE mode = "kClamp"  -> t
      [] mode = "kDecal"  -> t
      [] mode = "kRepeat" -> RSub(t, RFloor(t))
      [] mode = "kMirror" ->
            LET A == RSub(t, One)
                B == RFloor(RMul(A, Half))
            IN  RAbs(RSub(RSub(A, RAdd(B, B)), One))

\* A plausible slip: a breakpoint counts only once t is past it.
ProgramIndex_Strict(sh, prog, t) ==
    IF sh.fOrigPos = nullptr
    THEN TruncInt(RAdd(RMul(clamp01(t), IntToScalar(Len(prog.stops) - 1)), One))
    ELSE Cardinality({ k \in 1..Len(prog.stops) : RGt(t, prog.stops[k]) })

\* A plausible slip: the index of evenly spaced stops is computed from the
\* unclamped t.
ProgramIndex_Unclamped(sh, prog, t) ==
    IF sh.fOrigPos = nullptr
    THEN TruncInt(RAdd(RMul(t, IntToScalar(Len(prog.stops) - 1)), One))
    ELSE Cardinality({ k \in 1..Len(prog.stops) : RGe(t, prog.stops[k]) })

\* The index of the FB the general branch gathers.
ProgramIndex(sh, prog, t) ==
    IF sh.fOrigPos = nullptr
    THEN TruncInt(RAdd(RMul(clamp01(t), IntToScalar(Len(prog.stops) - 1)), One))
    ELSE Cardinality({ k \in 1..Len(prog.stops) : RGe(t, prog.stops[k]) })

\* The t the general branch multiplies the gathered scale by.
ProgramLookupT(sh, t) == t

\* A plausible slip: t = 1 is outside, as with a half-open interval.
ProgramDecalMask_HalfOpen(t) == RLe(Zero, t) /\ RLt(t, One)

\* mask &= (t == clamp01(t))
ProgramDecalMask(t) == t = clamp01(t)

\* What one pixel with parameter t0 gets from the program.
onProgram(sh, prog, t0) ==
    LET mask == IF sh.fTileMode = "kDecal" THEN ProgramDecalMask(t0) ELSE TRUE
        t    == ProgramTile(sh.fTileMode, t0)
        ix   == IF prog.twoStop THEN 0 ELSE ProgramIndex(sh, prog, t)
        FB   == IF ix + 1 \in 1..Len(prog.fb)
                THEN prog.fb[ix + 1] ELSE [f |-> Garbage, b |-> Garbage]
        color == IF prog.twoStop
                 THEN CMad(clamp01(t), prog.F, prog.B)
                 ELSE CMad(ProgramLookupT(sh, t), FB.f, FB.b)
        out  == IF ~sh.fInPremul /\ ~sh.fColorsAreOpaque THEN Premul(color) ELSE color
    IN  [t |-> t, lookup |-> color, ix |-> ix, mask |-> mask,
         color |-> IF mask THEN out ELSE CZero(out)]

----------------------------------------------------------------------------
(* The early returns of onAppendStages and onProgram, and isOpaque *)

\* SkShaderBase::computeTotalInverse: false if the matrix has no inverse.
computeTotalInverse(matrix) == matrix # "singular"

\* A plausible slip: seed_shader is appended before the inverse is computed.
AppendStagesCall_SeedFirst(sh, matrix) ==
    IF ~computeTotalInverse(matrix)
    THEN [ret |-> FALSE, stages |-> <<Stage("seed_shader")>>]
    ELSE [ret |-> TRUE, stages |-> onAppendStages(sh)]

\* onAppendStages on an empty pipeline: its return value and the stages the
\* pipeline holds after it.
AppendStagesCall(sh, matrix) ==
    IF ~computeTotalInverse(matrix)
    THEN [ret |-> FALSE, stages |-> <<>>]
    ELSE [ret |-> TRUE, stages |-> onAppendStages(sh)]

\* onProgram: the color it returns ({} is the empty color) and the uniforms
\* it pushed.
ProgramCall(sh, matrix) ==
    IF ~computeTotalInverse(matrix)
    THEN [ret |-> "{}", uniforms |-> [twoStop |-> FALSE, F |-> None, B |-> None,
                                     fb |-> <<>>, stops |-> <<>>]]
    ELSE [ret |-> "color", uniforms |-> ProgramTable(sh)]

\* A plausible slip: the tile mode is left out.
isOpaque_IgnoresDecal(sh) == sh.fColorsAreOpaque

isOpaque(sh) == sh.fColorsAreOpaque /\ sh.fTileMode # "kDecal"

----------------------------------------------------------------------------
(* The static functions: ValidGradient, average_gradient_color and          *)
(* MakeDegenerateGradient                                                   *)

\* enum class SkTileMode { kClamp, kRepeat, kMirror, kDecal }, by value.
kSkTileModeCount == 4
SkTileMode(v) == <<"kClamp", "kRepeat", "kMirror", "kDecal">>[v + 1]

\* (unsigned)v of a 32-bit int, as its two 16-bit halves <<high, low>>.
Unsigned(v) == <<(v \div (2 ^ 16)) % (2 ^ 16), v % (2 ^ 16)>>
\* u < k for an unsigned u and a k below 2^16.
UnsignedLess(u, k) == u[1] = 0 /\ u[2] < k

\* A plausible slip: the count is required to be above 1, as the Descriptor
\* asserts it.
ValidGradient_CountAbove1(colors, pos, count, tileMode) ==
    /\ nullptr # colors
    /\ count > 1
    /\ UnsignedLess(Unsigned(tileMode), kSkTileModeCount)

\* Return true if these parameters are valid/legal/safe to construct a gradient
ValidGradient(colors, pos, count, tileMode) ==
    /\ nullptr # colors
    /\ count >= 1
    /\ UnsignedLess(Unsigned(tileMode), kSkTileModeCount)

\* a + s * c, per channel.
CAddScaled(a, s, c) == [k \in Chans(a) |-> RAdd(a[k], RMul(s, c[k]))]

\* for (int i = 0; i < colorCount - 1; ++i) of average_gradient_color.
RECURSIVE AverageLoop(_, _, _, _, _)
AverageLoop(colors, pos, colorCount, i, blend) ==
    IF i >= colorCount - 1
    THEN blend
    ELSE LET c0 == ToScalars(colors[i + 1])
             c1 == ToScalars(colors[i + 2])
             p0 == SkTPin(pos[i + 1], Zero, One)
             p1 == SkTPin(pos[i + 2], p0, One)
             w  == IF pos # nullptr THEN RSub(p1, p0)
                   ELSE RDiv(One, IntToScalar(colorCount - 1))
             \* the implicit intervals at the start and the end of the positions
             b1 == IF pos # nullptr /\ i = 0 /\ RGt(p0, Zero)
                   THEN CAddScaled(blend, p0, ToScalars(colors[1])) ELSE blend
             b2 == IF pos # nullptr /\ i = colorCount - 2 /\ RLt(p1, One)
                   THEN CAddScaled(b1, RSub(One, p1), ToScalars(colors[colorCount]))
                   ELSE b1
         IN  AverageLoop(colors, pos, colorCount, i + 1,
                         CAddScaled(b2, RMul(Half, w), [k \in Chans(c0) |-> RAdd(c1[k], c0[k])]))

\* A plausible slip: the plain mean of the stop colors, each stop weighing the
\* same, where each interval should.
average_gradient_color_Mean(colors, pos, colorCount) ==
    [k \in 1..2 |->
        LET RECURSIVE Sum(_)
            Sum(i) == IF i = 0 THEN Zero ELSE RAdd(Sum(i - 1), IntToScalar(colors[i][k]))
        IN  RDiv(Sum(colorCount), IntToScalar(colorCount))]

average_gradient_color(colors, pos, colorCount) ==
    AverageLoop(colors, pos, colorCount, 0, <<Zero, Zero>>)

\* What MakeDegenerateGradient returns: the shader of SkShaders::Empty() or
\* SkShaders::Color(color), or no shader.
EmptyShader == [kind |-> "Empty", color |-> None]
ColorShader(color) == [kind |-> "Color", color |-> color]
NullShader == [kind |-> "nullptr", color |-> None]

\* A plausible slip: the clamp fallback is the first color.
MakeDegenerateGradient_FirstColor(colors, pos, colorCount, mode) ==
    CASE mode = 3 -> EmptyShader
      [] mode \in {1, 2} -> ColorShader(average_gradient_color(colors, pos, colorCount))
      [] mode = 0 -> ColorShader(ToScalars(colors[1]))
      [] OTHER -> NullShader

MakeDegenerateGradient(colors, pos, colorCount, mode) ==
    CASE mode = 3 -> EmptyShader
      [] mode \in {1, 2} -> ColorShader(average_gradient_color(colors, pos, colorCount))
      [] mode = 0 -> ColorShader(ToScalars(colors[colorCount]))
      [] OTHER -> NullShader

----------------------------------------------------------------------------
(* Serialization: GradientSerializationFlags, Descriptor::flatten,          *)
(* DescriptorScope::unflatten and SkGradientShaderBase::flatten             *)

\* A uint32_t is the pair <<high, low>> of its 16-bit halves.
HalfBits == 16
HalfSize == 2 ^ HalfBits

RECURSIVE BitAnd(_, _)
BitAnd(a, b) ==
    IF a = 0 \/ b = 0 THEN 0
    ELSE (a % 2) * (b % 2) + 2 * BitAnd(a \div 2, b \div 2)

RECURSIVE BitOr(_, _)
BitOr(a, b) ==
    IF a = 0 THEN b
    ELSE IF b = 0 THEN a
    ELSE (IF a % 2 = 1 \/ b % 2 = 1 THEN 1 ELSE 0) + 2 * BitOr(a \div 2, b \div 2)

\* x & y, x | y, v << s and x >> s of uint32_t, v below 2^16 and s below 16.
WordAnd(x, y) == <<BitAnd(x[1], y[1]), BitAnd(x[2], y[2])>>
WordOr(x, y) == <<BitOr(x[1], y[1]), BitOr(x[2], y[2])>>
WordShl(v, s) == <<((v * 2 ^ s) \div HalfSize) % HalfSize, (v * 2 ^ s) % HalfSize>>
WordShr(x, s) ==
    <<x[1] \div 2 ^ s, (x[2] \div 2 ^ s) + (x[1] % 2 ^ s) * 2 ^ (HalfBits - s)>>
WordZero == <<0, 0>>

\* enum GradientSerializationFlags
kHasPosition_GSF == <<2 ^ 15, 0>>
kHasLegacyLocalMatrix_GSF == <<2 ^ 14, 0>>
kHasColorSpace_GSF == <<2 ^ 13, 0>>
kTileModeShift_GSF == 8
kTileModeMask_GSF == 15
kGradFlagsShift_GSF == 0
kGradFlagsMask_GSF == 255

\* SkGradientShader::kInterpolateColorsInPremul_Flag == 1 << 0
kInterpolateColorsInPremul_Flag == 1

\* (unsigned)tileMode of a tile mode of the enumeration.
TileModeValue(mode) ==
    CHOOSE v \in 0..(kSkTileModeCount - 1) : SkTileMode(v) = mode

interpolation_to_grad_flags(inPremul) ==
    IF inPremul THEN BitOr(0, kInterpolateColorsInPremul_Flag) ELSE 0

grad_flags_to_interpolation(flags) ==
    BitAnd(flags, kInterpolateColorsInPremul_Flag) # 0

\* What SkWriteBuffer holds: the values written, in order; an array is written
\* with its count.
WriteUInt(buffer, v) == Append(buffer, [kind |-> "uint", value |-> v])
WriteColor4fArray(buffer, colors, count) ==
    Append(buffer, [kind |-> "color4fArray", count |-> count,
                    value |-> SubSeq(colors, 1, count)])
WriteDataAsByteArray(buffer, data) ==
    Append(buffer, [kind |-> "byteArray", value |-> data])
WriteScalarArray(buffer, pos, count) ==
    Append(buffer, [kind |-> "scalarArray", count |-> count,
                    value |-> SubSeq(pos, 1, count)])

\* The flag word Descriptor::flatten writes.
FlattenFlags(d, colorSpaceData) ==
    LET f1 == IF d.fPos # nullptr THEN WordOr(WordZero, kHasPosition_GSF) ELSE WordZero
        f2 == IF colorSpaceData # nullptr THEN WordOr(f1, kHasColorSpace_GSF) ELSE f1
        f3 == WordOr(f2, WordShl(TileModeValue(d.fTileMode), kTileModeShift_GSF))
    IN  WordOr(f3, WordShl(interpolation_to_grad_flags(d.fInPremul), kGradFlagsShift_GSF))

\* SkGradientShaderBase::Descriptor::flatten: the buffer after the writes.
\* colorSpace is the descriptor's fColorSpace (nullptr or a color space, which
\* serializes to its data).
Descriptor_flatten(d, colorSpace) ==
    LET colorSpaceData == colorSpace
        b1 == WriteUInt(<<>>, FlattenFlags(d, colorSpaceData))
        b2 == WriteColor4fArray(b1, d.fColors, d.fCount)
        b3 == IF colorSpaceData # nullptr THEN WriteDataAsByteArray(b2, colorSpaceData)
              ELSE b2
    IN  IF d.fPos # nullptr THEN WriteScalarArray(b3, d.fPos, d.fCount) ELSE b3

\* SkReadBuffer: the values still to be read; a read of anything but the value
\* that is next makes the buffer invalid.
Reader(buffer) == [rest |-> buffer, valid |-> TRUE]
NextIs(rd, kind) == rd.valid /\ Len(rd.rest) > 0 /\ Head(rd.rest).kind = kind
Advance(rd) == [rd EXCEPT !.rest = Tail(rd.rest)]
Invalidate(rd) == [rd EXCEPT !.valid = FALSE]

ReadUInt(rd) ==
    IF NextIs(rd, "uint")
    THEN [rd |-> Advance(rd), value |-> Head(rd.rest).value]
    ELSE [rd |-> Invalidate(rd), value |-> WordZero]

\* The count of the array that is next, 0 if none is.
GetArrayCount(rd) ==
    IF NextIs(rd, "color4fArray") \/ NextIs(rd, "scalarArray")
    THEN Head(rd.rest).count ELSE 0

\* validate_array and the read of count elements of the given kind.
ReadArray(rd, kind, count) ==
    IF NextIs(rd, kind) /\ Head(rd.rest).count = count
    THEN [rd |-> Advance(rd), ok |-> TRUE, value |-> Head(rd.rest).value]
    ELSE [rd |-> Invalidate(rd), ok |-> FALSE, value |-> nullptr]

ReadByteArrayAsData(rd) ==
    IF NextIs(rd, "byteArray")
    THEN [rd |-> Advance(rd), value |-> Head(rd.rest).value]
    ELSE [rd |-> Invalidate(rd), value |-> nullptr]

ReadMatrix(rd) ==
    IF NextIs(rd, "matrix")
    THEN [rd |-> Advance(rd), value |-> Head(rd.rest).value]
    ELSE [rd |-> Invalidate(rd), value |-> "identity"]

\* A plausible slip: the tile mode is read without the shift.
TileModeField_NoShift(flags) ==
    BitAnd(flags[2], kTileModeMask_GSF)

\* (flags >> kTileModeShift_GSF) & kTileModeMask_GSF
TileModeField(flags) ==
    BitAnd(WordShr(flags, kTileModeShift_GSF)[2], kTileModeMask_GSF)

\* (flags >> kGradFlagsShift_GSF) & kGradFlagsMask_GSF
GradFlagsField(flags) ==
    BitAnd(WordShr(flags, kGradFlagsShift_GSF)[2], kGradFlagsMask_GSF)

\* (SkTileMode)v: the enumerator of value v, or the value itself if it has none.
ToTileMode(v) == IF v \in 0..(kSkTileModeCount - 1) THEN SkTileMode(v) ELSE v

\* SkGradientShaderBase::DescriptorScope::unflatten: the return value and the
\* fields of the descriptor after the call.
unflatten(buffer) ==
    LET r0 == ReadUInt(Reader(buffer))
        flags == r0.value
        fCount == GetArrayCount(r0.rd)
        r1 == ReadArray(r0.rd, "color4fArray", fCount)
        r2 == IF WordAnd(flags, kHasColorSpace_GSF) # WordZero
              THEN ReadByteArrayAsData(r1.rd)
              ELSE [rd |-> r1.rd, value |-> nullptr]
        r3 == IF WordAnd(flags, kHasPosition_GSF) # WordZero
              THEN ReadArray(r2.rd, "scalarArray", fCount)
              ELSE [rd |-> r2.rd, ok |-> TRUE, value |-> nullptr]
        r4 == IF WordAnd(flags, kHasLegacyLocalMatrix_GSF) # WordZero
              THEN ReadMatrix(r3.rd)
              ELSE [rd |-> r3.rd, value |-> "identity"]
        common == [fTileMode |-> ToTileMode(TileModeField(flags)),
                   fInPremul |-> grad_flags_to_interpolation(GradFlagsField(flags)),
                   fCount |-> fCount]
    IN  IF ~r1.ok
        THEN [ret |-> FALSE, desc |-> common]
        ELSE IF ~r3.ok
        THEN [ret |-> FALSE,
              desc |-> common @@ [fColors |-> r1.value, fColorSpace |-> r2.value]]
        ELSE [ret |-> r4.rd.valid,
              desc |-> common @@
                       [fColors |-> r1.value, fColorSpace |-> r2.value,
                        fPos |-> r3.value, legacyLocalMatrix |-> r4.value]]

\* The color space of a shader: desc.fColorSpace or SkColorSpace::MakeSRGB().
ColorSpaces == { <<"sRGB">> }

\* SkGradientShaderBase::flatten: the descriptor it fills in and flattens.
FlattenedDescriptor(sh) ==
    Descriptor(sh.fOrigColors4f, sh.fOrigPos, sh.fColorCount, sh.fTileMode, sh.fInPremul)

flatten(sh, colorSpace) == Descriptor_flatten(FlattenedDescriptor(sh), colorSpace)

----------------------------------------------------------------------------
(* The transient colors of an evaluation, and commonAsAGradient *)

\* A plausible slip: the colors are premultiplied where they are stored.
ColorsAfterXform_InPlace(colors, inPremul) ==
    [k \in 1..Len(colors) |->
        IF inPremul THEN <<colors[k][1] * colors[k][2], colors[k][2]>> ELSE colors[k]]

\* What the array SkColor4fXformer is given (const SkColor4f* colors) holds
\* after the conversion: SkConvertPixels reads it and writes fColors.
ColorsAfterXform(colors, inPremul) == colors

\* SkColor4f::toSkColor of a stored color: 8 bits per channel.
ByteMax == 255
getLegacyColor(sh, i) ==
    [k \in 1..2 |->
        LET v == sh.fOrigColors4f[i + 1][k]
        IN  ByteMax * (IF v < 0 THEN 0 ELSE IF v > 1 THEN 1 ELSE v)]

\* commonAsAGradient: the caller's GradientInfo after the call.
commonAsAGradient(sh, info) ==
    IF info = nullptr THEN info
    ELSE LET fits == info.fColorCount >= sh.fColorCount
         IN  [fColors |->
                  IF fits /\ info.fColors # nullptr
                  THEN [i \in 1..Len(info.fColors) |->
                           IF i <= sh.fColorCount THEN getLegacyColor(sh, i - 1)
                           ELSE info.fColors[i]]
                  ELSE info.fColors,
              fColorOffsets |->
                  IF fits /\ info.fColorOffsets # nullptr
                  THEN [i \in 1..Len(info.fColorOffsets) |->
                           IF i <= sh.fColorCount THEN getPos(sh, i - 1)
                           ELSE info.fColorOffsets[i]]
                  ELSE info.fColorOffsets,
              fColorCount |-> sh.fColorCount,
              fTileMode |-> sh.fTileMode,
              fGradientFlags |->
                  IF sh.fInPremul THEN kInterpolateColorsInPremul_Flag ELSE 0]

----------------------------------------------------------------------------
(* The state machine: a descriptor is optimized (or not), the shader is     *)
(* constructed from it, both backends build their tables, a pixel is drawn. *)

NoShader == [fColorCount |-> 0]
NoProgram == [twoStop |-> FALSE, F |-> None, B |-> None, fb |-> <<>>, stops |-> <<>>]
NoOut == [t |-> None, lookup |-> None, ix |-> -1, mask |-> TRUE, color |-> None]
NoCall == [fn |-> "none"]

ProgramBuilt == program # NoProgram
PipelineBuilt == pipeline # <<>>

InitWith(P) ==
    /\ DescriptorOver(rawDesc, P)
    /\ desc = rawDesc
    /\ pc = "raw"
    /\ shader = NoShader
    /\ pipeline = <<>>
    /\ program = NoProgram
    /\ pixelT = Zero
    /\ stageOut = NoOut
    /\ progOut = NoOut
    /\ call = NoCall

Init == InitWith(PosVals)

\* Normalization alone, over the wider set of caller positions.
InitNormalize == InitWith(RawPosVals)

\* A factory runs ColorStopOptimizer on the caller's arrays.
Optimize ==
    /\ pc = "raw"
    /\ LET opt == ColorStopOptimizer(desc.fColors, desc.fPos, desc.fCount, desc.fTileMode)
       IN  desc' = Descriptor(opt.fColors, opt.fPos, opt.fCount, desc.fTileMode,
                              desc.fInPremul)
    /\ pc' = "optimized"
    /\ UNCHANGED <<rawDesc, shader, pipeline, program, pixelT, stageOut, progOut, call>>

Construct ==
    /\ pc \in {"raw", "optimized"}
    /\ shader' = SkGradientShaderBase(desc)
    /\ pc' = "constructed"
    /\ UNCHANGED <<rawDesc, desc, pipeline, program, pixelT, stageOut, progOut, call>>

AppendStages ==
    /\ pc = "constructed"
    /\ ~PipelineBuilt
    /\ pipeline' = onAppendStages(shader)
    /\ UNCHANGED <<rawDesc, desc, pc, shader, program, pixelT, stageOut, progOut, call>>

Program ==
    /\ pc = "constructed"
    /\ ~ProgramBuilt
    /\ program' = ProgramTable(shader)
    /\ UNCHANGED <<rawDesc, desc, pc, shader, pipeline, pixelT, stageOut, progOut, call>>

\* One pixel with parameter tv goes through both backends.
Draw(tv) ==
    /\ pc = "constructed"
    /\ PipelineBuilt
    /\ ProgramBuilt
    /\ pixelT' = tv
    /\ stageOut' = RunPipeline(pipeline, tv)
    /\ progOut' = onProgram(shader, program, tv)
    /\ pc' = "drawn"
    /\ UNCHANGED <<rawDesc, desc, shader, pipeline, program, call>>

Next ==
    \/ Optimize
    \/ Construct
    \/ AppendStages
    \/ Program
    \/ \E tv \in TVals : Draw(tv)

Spec == Init /\ [][Next]_vars

NextNormalize ==
    \/ Optimize
    \/ Construct

SpecNormalize == InitNormalize /\ [][NextNormalize]_vars

\* The static functions alone: a caller has colors (or none), positions (or
\* none), a count (the length of its arrays, or a count that is not one) and
\* a tile mode value, and calls ValidGradient or, with valid arguments,
\* MakeDegenerateGradient.
PendingCall(k) ==
    \E n \in 1..MaxCount :
        \E c \in {nullptr} \cup [1..n -> Colors] :
            \E p \in {nullptr} \cup [1..n -> CallPosVals] :
                \E cnt \in {-1, 0, n} :
                    \E m \in CallModeValues :
                        k = [fn |-> "none", colors |-> c, pos |-> p, count |-> cnt,
                             mode |-> m, ret |-> None]

InitCalls ==
    /\ PendingCall(call)
    /\ rawDesc = nullptr
    /\ desc = nullptr
    /\ pc = "static"
    /\ shader = NoShader
    /\ pipeline = <<>>
    /\ program = NoProgram
    /\ pixelT = Zero
    /\ stageOut = NoOut
    /\ progOut = NoOut

CallValidGradient ==
    /\ call.fn = "none"
    /\ call' = [call EXCEPT !.fn = "ValidGradient",
                            !.ret = ValidGradient(call.colors, call.pos, call.count,
                                                  call.mode)]
    /\ UNCHANGED <<rawDesc, desc, pc, shader, pipeline, program, pixelT, stageOut, progOut>>

\* The factories call MakeDegenerateGradient after ValidGradient accepted the
\* arguments; count is the length of the arrays.
CallMakeDegenerateGradient ==
    /\ call.fn = "none"
    /\ ValidGradient(call.colors, call.pos, call.count, call.mode)
    /\ call' = [call EXCEPT !.fn = "MakeDegenerateGradient",
                            !.ret = MakeDegenerateGradient(call.colors, call.pos,
                                                           call.count, call.mode)]
    /\ UNCHANGED <<rawDesc, desc, pc, shader, pipeline, program, pixelT, stageOut, progOut>>

NextCalls ==
    \/ CallValidGradient
    \/ CallMakeDegenerateGradient

SpecCalls == InitCalls /\ [][NextCalls]_vars

\* d is a descriptor a caller can pass with colors from K and positions from
\* P, interpolated in premul or not.
DescriptorPremulOver(d, K, P) ==
    \E n \in 2..MaxCount :
        \E c \in [1..n -> K] :
            \E p \in {nullptr} \cup [1..n -> P] :
                \E m \in TileModes :
                    \E inPremul \in BOOLEAN :
                        d = Descriptor(c, p, n, m, inPremul)

\* Serialization: a descriptor is flattened and read back; a shader is
\* constructed, flattened, read back and constructed again from what was read.
\* A buffer may lose its last value before it is read.
InitSerialize ==
    /\ DescriptorPremulOver(rawDesc, Colors, SerialPosVals)
    /\ desc = rawDesc
    /\ pc = "raw"
    /\ shader = NoShader
    /\ pipeline = <<>>
    /\ program = NoProgram
    /\ pixelT = Zero
    /\ stageOut = NoOut
    /\ progOut = NoOut
    /\ call = NoCall

Flattened(fn, d, colorSpace, buffer) ==
    [fn |-> fn, desc |-> d, colorSpace |-> colorSpace, buffer |-> buffer,
     truncated |-> FALSE]

FlattenDescriptor(colorSpace) ==
    /\ pc = "raw"
    /\ call.fn = "none"
    /\ call' = Flattened("Descriptor::flatten", desc, colorSpace,
                         Descriptor_flatten(desc, colorSpace))
    /\ UNCHANGED <<rawDesc, desc, pc, shader, pipeline, program, pixelT, stageOut, progOut>>

FlattenShader ==
    /\ pc = "constructed"
    /\ call.fn = "none"
    /\ \E colorSpace \in ColorSpaces :
          call' = Flattened("flatten", FlattenedDescriptor(shader), colorSpace,
                            flatten(shader, colorSpace))
    /\ UNCHANGED <<rawDesc, desc, pc, shader, pipeline, program, pixelT, stageOut, progOut>>

Truncate ==
    /\ call.fn \in {"Descriptor::flatten", "flatten"}
    /\ ~call.truncated
    /\ call' = [call EXCEPT !.buffer = SubSeq(call.buffer, 1, Len(call.buffer) - 1),
                            !.truncated = TRUE]
    /\ UNCHANGED <<rawDesc, desc, pc, shader, pipeline, program, pixelT, stageOut, progOut>>

Unflatten ==
    /\ call.fn \in {"Descriptor::flatten", "flatten"}
    /\ LET r == unflatten(call.buffer)
       IN  call' = [fn |-> "unflatten", from |-> call.fn, desc |-> call.desc,
                    colorSpace |-> call.colorSpace, truncated |-> call.truncated,
                    ret |-> r.ret, read |-> r.desc]
    /\ UNCHANGED <<rawDesc, desc, pc, shader, pipeline, program, pixelT, stageOut, progOut>>

\* A gradient is constructed from what was read back of a shader.
Reconstruct ==
    /\ call.fn = "unflatten"
    /\ call.from = "flatten"
    /\ call.ret
    /\ call' = [fn |-> "reconstruct",
                shader |-> SkGradientShaderBase(
                               Descriptor(call.read.fColors, call.read.fPos,
                                          call.read.fCount, call.read.fTileMode,
                                          call.read.fInPremul))]
    /\ UNCHANGED <<rawDesc, desc, pc, shader, pipeline, program, pixelT, stageOut, progOut>>

NextSerialize ==
    \/ \E colorSpace \in {nullptr} \cup ColorSpaces : FlattenDescriptor(colorSpace)
    \/ Construct
    \/ FlattenShader
    \/ Truncate
    \/ Unflatten
    \/ Reconstruct

SpecSerialize == InitSerialize /\ [][NextSerialize]_vars

\* Use: a shader is constructed and its methods are called, in any order and
\* any number of times, with matrices that may have no inverse; a pixel is
\* drawn once a pipeline and a program exist.
InitUse ==
    /\ DescriptorPremulOver(rawDesc, UseColors, UsePosVals)
    /\ desc = rawDesc
    /\ pc = "raw"
    /\ shader = NoShader
    /\ pipeline = <<>>
    /\ program = NoProgram
    /\ pixelT = Zero
    /\ stageOut = NoOut
    /\ progOut = NoOut
    /\ call = NoCall

\* onAppendStages on a new, empty pipeline.
CallOnAppendStages(matrix) ==
    /\ pc = "constructed"
    /\ LET r == AppendStagesCall(shader, matrix)
       IN  /\ pipeline' = r.stages
           /\ call' = [fn |-> "onAppendStages", matrix |-> matrix, ret |-> r.ret]
    /\ UNCHANGED <<rawDesc, desc, pc, shader, program, pixelT, stageOut, progOut>>

\* onProgram in a new builder.
CallOnProgram(matrix) ==
    /\ pc = "constructed"
    /\ LET r == ProgramCall(shader, matrix)
       IN  /\ program' = r.uniforms
           /\ call' = [fn |-> "onProgram", matrix |-> matrix, ret |-> r.ret]
    /\ UNCHANGED <<rawDesc, desc, pc, shader, pipeline, pixelT, stageOut, progOut>>

CallIsOpaque ==
    /\ pc = "constructed"
    /\ call' = [fn |-> "isOpaque", matrix |-> None, ret |-> isOpaque(shader)]
    /\ UNCHANGED <<rawDesc, desc, pc, shader, pipeline, program, pixelT, stageOut, progOut>>

NextUse ==
    \/ Construct
    \/ \E matrix \in Matrices : CallOnAppendStages(matrix)
    \/ \E matrix \in Matrices : CallOnProgram(matrix)
    \/ CallIsOpaque
    \/ \E tv \in UseTVals : Draw(tv)

SpecUse == InitUse /\ [][NextUse]_vars

\* Threads: one shader is constructed and then used by several threads at
\* once.  An evaluation (onAppendStages, onProgram) takes three steps: it
\* computes the inverse, converts the colors into its transient copy, and
\* builds its table from the copy; the other methods take one step.
IdleThread == [fn |-> "none", at |-> "idle", xformed |-> None, ret |-> None]

InitThreads ==
    /\ DescriptorPremulOver(rawDesc, Colors, ThreadPosVals)
    /\ desc = rawDesc
    /\ pc = "raw"
    /\ shader = NoShader
    /\ pipeline = <<>>
    /\ program = NoProgram
    /\ pixelT = Zero
    /\ stageOut = NoOut
    /\ progOut = NoOut
    /\ call = [th \in Threads |-> IdleThread]

\* The caller's GradientInfo: none, or arrays for room entries.
GradientInfos ==
    { nullptr,
      [fColorCount |-> 0, fColors |-> nullptr, fColorOffsets |-> nullptr],
      [fColorCount |-> MaxCount + 2,
       fColors |-> [i \in 1..(MaxCount + 2) |-> <<0, 0>>],
       fColorOffsets |-> [i \in 1..(MaxCount + 2) |-> Zero]] }

\* onAppendStages or onProgram up to the inverse.
BeginEvaluation(th, fn, matrix) ==
    /\ pc = "constructed"
    /\ call[th].at \in {"idle", "done"}
    /\ call' = [call EXCEPT ![th] =
                    IF computeTotalInverse(matrix)
                    THEN [fn |-> fn, at |-> "xform", xformed |-> None, ret |-> None]
                    ELSE [fn |-> fn, at |-> "done", xformed |-> None,
                          ret |-> IF fn = "onAppendStages"
                                  THEN AppendStagesCall(shader, matrix).ret
                                  ELSE ProgramCall(shader, matrix).ret]]
    /\ UNCHANGED <<rawDesc, desc, pc, shader, pipeline, program, pixelT, stageOut, progOut>>

\* SkColor4fXformer xformedColors(fOrigColors4f, ...)
Xform(th) ==
    /\ call[th].at = "xform"
    /\ call' = [call EXCEPT ![th].at = "build",
                            ![th].xformed = SkColor4fXformer(shader.fOrigColors4f,
                                                             shader.fInPremul)]
    /\ shader' = [shader EXCEPT !.fOrigColors4f =
                      ColorsAfterXform(shader.fOrigColors4f, shader.fInPremul)]
    /\ UNCHANGED <<rawDesc, desc, pc, pipeline, program, pixelT, stageOut, progOut>>

\* The table is built and the method returns.
Build(th) ==
    /\ call[th].at = "build"
    /\ call' = [call EXCEPT ![th].at = "done",
                            ![th].ret = IF call[th].fn = "onAppendStages"
                                        THEN AppendStagesCall(shader, "invertible").ret
                                        ELSE ProgramCall(shader, "invertible").ret]
    /\ UNCHANGED <<rawDesc, desc, pc, shader, pipeline, program, pixelT, stageOut, progOut>>

ThreadFlatten(th) ==
    /\ pc = "constructed"
    /\ call[th].at \in {"idle", "done"}
    /\ \E colorSpace \in ColorSpaces :
          call' = [call EXCEPT ![th] = [fn |-> "flatten", at |-> "done", xformed |-> None,
                                       ret |-> flatten(shader, colorSpace)]]
    /\ UNCHANGED <<rawDesc, desc, pc, shader, pipeline, program, pixelT, stageOut, progOut>>

ThreadIsOpaque(th) ==
    /\ pc = "constructed"
    /\ call[th].at \in {"idle", "done"}
    /\ call' = [call EXCEPT ![th] = [fn |-> "isOpaque", at |-> "done", xformed |-> None,
                                     ret |-> isOpaque(shader)]]
    /\ UNCHANGED <<rawDesc, desc, pc, shader, pipeline, program, pixelT, stageOut, progOut>>

ThreadAsAGradient(th, info) ==
    /\ pc = "constructed"
    /\ call[th].at \in {"idle", "done"}
    /\ call' = [call EXCEPT ![th] = [fn |-> "commonAsAGradient", at |-> "done",
                                     xformed |-> None,
                                     ret |-> commonAsAGradient(shader, info)]]
    /\ UNCHANGED <<rawDesc, desc, pc, shader, pipeline, program, pixelT, stageOut, progOut>>

NextThreads ==
    \/ Construct
    \/ \E th \in Threads, matrix \in Matrices :
          BeginEvaluation(th, "onAppendStages", matrix)
    \/ \E th \in Threads, matrix \in Matrices :
          BeginEvaluation(th, "onProgram", matrix)
    \/ \E th \in Threads : Xform(th)
    \/ \E th \in Threads : Build(th)
    \/ \E th \in Threads : ThreadFlatten(th)
    \/ \E th \in Threads : ThreadIsOpaque(th)
    \/ \E th \in Threads, info \in GradientInfos : ThreadAsAGradient(th, info)

SpecThreads == InitThreads /\ [][NextThreads]_vars

----------------------------------------------------------------------------
(* Properties *)

Drawn == pc = "drawn"
Constructed == pc \in {"constructed", "drawn"}

\* The transient colors both backends interpolate between.
StopColors == SkColor4fXformer(shader.fOrigColors4f, shader.fInPremul)

\* The shader has a hard stop: two adjacent stored positions are equal.
HasHardStop ==
    /\ shader.fOrigPos # nullptr
    /\ \E i \in 1..(shader.fColorCount - 1) : shader.fOrigPos[i] = shader.fOrigPos[i + 1]

\* C1: for every drawn pixel, whatever the gradient, the tile mode and t, the
\* color the pipeline's table and lookup compute equals the color the
\* program's table and lookup compute.
C1_BackendsAgree ==
    Drawn => stageOut.lookup = progOut.lookup

\* C2: the positions the constructor stores, when present, are non-decreasing,
\* the first is exactly 0 and the last is exactly 1.
C2_PositionsNormalized ==
    Constructed /\ shader.fOrigPos # nullptr =>
        LET p == shader.fOrigPos
        IN  /\ Len(p) = shader.fColorCount
            /\ p[1] = Zero
            /\ p[Len(p)] = One
            /\ \A i \in 1..(Len(p) - 1) : RLe(p[i], p[i + 1])

\* C2's case: positions are kept although the caller's were below 0, above 1
\* and out of order.
C2_Witness ==
    /\ Constructed
    /\ shader.fOrigPos # nullptr
    /\ \E i \in 1..desc.fCount : RLt(desc.fPos[i], Zero)
    /\ \E i \in 1..desc.fCount : RGt(desc.fPos[i], One)
    /\ \E i \in 1..(desc.fCount - 1) : RLt(desc.fPos[i + 1], desc.fPos[i])

\* The lookup stage of the appended pipeline.
LookupOps == {"evenly_spaced_2_stop_gradient", "evenly_spaced_gradient", "gradient"}
LookupStage ==
    pipeline[CHOOSE k \in 1..Len(pipeline) : pipeline[k].op \in LookupOps]

\* The number of adjacent stored stops, among C indices lo..hi, that are
\* strictly apart.
StrictPairs(lo, hi) ==
    Cardinality({ i \in lo..(hi - 1) : RLt(getPos(shader, i), getPos(shader, i + 1)) })

\* C3: in the arbitrary-position table of either backend no scale or bias is
\* the result of a division by zero, there is one entry per pair of adjacent
\* stops strictly apart (besides the two constant ones) and none for a pair of
\* equal positions, and the stored breakpoints are strictly increasing.
C3_NoZeroWidthSegment ==
    /\ PipelineBuilt /\ LookupStage.op = "gradient" =>
          LET ctx == LookupStage.ctx
          IN  /\ \A k \in 1..Len(ctx.fs) : CFinite(ctx.fs[k]) /\ CFinite(ctx.bs[k])
              /\ ctx.stopCount = 2 + StrictPairs(FirstStop(shader), LastStop(shader))
              /\ Len(ctx.fs) = ctx.stopCount
              /\ \A k \in 2..(ctx.stopCount - 1) : RLt(ctx.ts[k], ctx.ts[k + 1])
    /\ ProgramBuilt /\ ~program.twoStop =>
          /\ \A k \in 1..Len(program.fb) :
                CFinite(program.fb[k].f) /\ CFinite(program.fb[k].b)
          /\ Len(program.stops) = 1 + StrictPairs(0, shader.fColorCount - 1)
          /\ Len(program.fb) = Len(program.stops) + 1
          /\ \A k \in 1..(Len(program.stops) - 1) :
                RLt(program.stops[k], program.stops[k + 1])

\* C3's case: both tables are built for a gradient with a hard stop between
\* two different colors.
C3_Witness ==
    /\ PipelineBuilt /\ ProgramBuilt
    /\ HasHardStop
    /\ LookupStage.op = "gradient"
    /\ \E i \in 1..(shader.fColorCount - 1) :
          /\ shader.fOrigPos[i] = shader.fOrigPos[i + 1]
          /\ shader.fOrigColors4f[i] # shader.fOrigColors4f[i + 1]

\* The last stored stop at position p, as an index of the stored sequences.
LastStopAt(p) ==
    CHOOSE j \in 1..shader.fColorCount :
        /\ shader.fOrigPos[j] = p
        /\ \A k \in (j + 1)..shader.fColorCount : shader.fOrigPos[k] # p

\* t is the parameter the lookup sees: the tile mode leaves it as it is.
TileKeepsT ==
    /\ RLe(Zero, pixelT) /\ RLe(pixelT, One)
    /\ shader.fTileMode = "kRepeat" => RLt(pixelT, One)

\* C4: a pixel whose t is exactly the position p of a hard stop gets, from
\* both backends, the color of the last declared stop at p.
C4_HardStopTakesLastColor ==
    Drawn /\ HasHardStop /\ TileKeepsT
    /\ (\E i \in 1..(shader.fColorCount - 1) :
            shader.fOrigPos[i] = pixelT /\ shader.fOrigPos[i + 1] = pixelT)
    => /\ stageOut.lookup = StopColors[LastStopAt(pixelT)]
       /\ progOut.lookup = StopColors[LastStopAt(pixelT)]

\* C4's case: stops at {0, 0, 0.5, 1}, the first two of different colors,
\* drawn at t = 0; both backends give the second stop's color.
C4_Witness ==
    /\ Drawn
    /\ shader.fOrigPos = <<Zero, Zero, Half, One>>
    /\ shader.fOrigColors4f[1] # shader.fOrigColors4f[2]
    /\ pixelT = Zero
    /\ stageOut.lookup = StopColors[2]
    /\ progOut.lookup = StopColors[2]

\* C5: neither backend writes or reads outside its tables: at most
\* fColorCount+1 (F,B) entries, at most fColorCount breakpoints in onProgram
\* and indices below fColorCount+1 in the ts array of onAppendStages, and a
\* segment index between 0 and the index of the closing constant entry.
C5_TablesInBounds ==
    /\ PipelineBuilt /\ LookupStage.op # "evenly_spaced_2_stop_gradient" =>
          LET ctx == LookupStage.ctx
          IN  /\ Len(ctx.fs) <= shader.fColorCount + 1
              /\ Len(ctx.bs) <= shader.fColorCount + 1
              /\ Len(ctx.ts) <= shader.fColorCount + 1
              /\ ctx.stopCount = Len(ctx.fs)
              /\ Drawn => stageOut.ix \in 0..(ctx.stopCount - 1)
    /\ ProgramBuilt /\ ~program.twoStop =>
          /\ Len(program.fb) <= shader.fColorCount + 1
          /\ Len(program.stops) <= shader.fColorCount
          /\ Drawn => progOut.ix \in 0..Len(program.stops)
                      /\ progOut.ix + 1 <= Len(program.fb)

\* C5's case: the tables are as long as they can be (no hard stop, nothing
\* skipped) and the pixel reads the closing constant entry of each.
C5_Witness ==
    /\ Drawn
    /\ shader.fOrigPos # nullptr
    /\ LookupStage.op = "gradient"
    /\ LookupStage.ctx.stopCount = shader.fColorCount + 1
    /\ Len(program.fb) = shader.fColorCount + 1
    /\ stageOut.ix = LookupStage.ctx.stopCount - 1
    /\ progOut.ix = Len(program.stops)

\* C6: under clamp with positions absent, a pixel with t < 0 gets exactly the
\* first stop's color and one with t >= 1 exactly the last stop's color, from
\* both backends.
C6_ClampEvenlySpacedEnds ==
    Drawn /\ shader.fTileMode = "kClamp" /\ shader.fOrigPos = nullptr =>
        /\ RLt(pixelT, Zero) =>
              /\ stageOut.lookup = StopColors[1]
              /\ progOut.lookup = StopColors[1]
        /\ RGe(pixelT, One) =>
              /\ stageOut.lookup = StopColors[shader.fColorCount]
              /\ progOut.lookup = StopColors[shader.fColorCount]

\* C7: under clamp with stored positions t reaches the breakpoint search
\* unclamped; t below the first position gets the first stop's color, t at or
\* above the last position the last stop's color, and with positions {0,0,1}
\* t = 0 gets the second stop's color; clamp_x_1 is among the appended stages
\* exactly for clamp and decal with positions absent.
C7_ClampWithPositions ==
    /\ PipelineBuilt =>
          ((\E k \in 1..Len(pipeline) : pipeline[k].op = "clamp_x_1")
             <=> (shader.fTileMode \in {"kClamp", "kDecal"} /\ shader.fOrigPos = nullptr))
    /\ Drawn /\ shader.fTileMode = "kClamp" /\ shader.fOrigPos # nullptr =>
          /\ stageOut.t = pixelT
          /\ progOut.t = pixelT
          /\ RLt(pixelT, shader.fOrigPos[1]) =>
                /\ stageOut.lookup = StopColors[1]
                /\ progOut.lookup = StopColors[1]
          /\ RGe(pixelT, shader.fOrigPos[shader.fColorCount]) =>
                /\ stageOut.lookup = StopColors[shader.fColorCount]
                /\ progOut.lookup = StopColors[shader.fColorCount]
          /\ shader.fOrigPos = <<Zero, Zero, One>> /\ pixelT = Zero =>
                /\ stageOut.lookup = StopColors[2]
                /\ progOut.lookup = StopColors[2]

\* C7's case: a hard stop at 0 between two different colors, clamp, t < 0:
\* the pixel gets the first color, not the second.
C7_Witness ==
    /\ Drawn
    /\ shader.fTileMode = "kClamp"
    /\ shader.fOrigPos = <<Zero, Zero, One>>
    /\ shader.fOrigColors4f[1] # shader.fOrigColors4f[2]
    /\ RLt(pixelT, Zero)
    /\ stageOut.lookup = StopColors[1]
    /\ progOut.lookup = StopColors[1]

\* The optimizer dropped a stop of the caller's descriptor.
Collapsed == desc.fCount # rawDesc.fCount

\* C8: a pixel drawn with the collapsed 2-stop gradient gets the color it
\* gets from the gradient constructed from the caller's 3 stops, in both
\* backends, whatever t is.
C8_CollapseKeepsRendering ==
    Drawn /\ Collapsed =>
        LET sh3 == SkGradientShaderBase(rawDesc)
        IN  /\ stageOut.color = RunPipeline(onAppendStages(sh3), pixelT).color
            /\ progOut.color = onProgram(sh3, ProgramTable(sh3), pixelT).color

\* What C9 says the optimizer returns for the caller's descriptor d, given
\* which positions count as {0,0,1} (left) and which as {0,1,1} (right).
Unchanged(d) == d
DropLeftmost(d) ==
    [d EXCEPT !.fColors = SubSeq(d.fColors, 2, 3), !.fPos = SubSeq(d.fPos, 2, 3),
              !.fCount = 2]
DropRightmost(d) ==
    [d EXCEPT !.fColors = SubSeq(d.fColors, 1, 2), !.fPos = SubSeq(d.fPos, 1, 2),
              !.fCount = 2]
Wraps(d) == d.fTileMode \in {"kRepeat", "kMirror"}

OptimizedAs(d, left, right) ==
    IF d.fPos = nullptr \/ d.fCount # 3 THEN Unchanged(d)
    ELSE IF left
         THEN (IF Wraps(d) \/ d.fColors[1] = d.fColors[2]
               THEN DropLeftmost(d) ELSE Unchanged(d))
    ELSE IF right
         THEN (IF Wraps(d) \/ d.fColors[2] = d.fColors[3]
               THEN DropRightmost(d) ELSE Unchanged(d))
    ELSE Unchanged(d)

\* Each position is within SK_ScalarNearlyZero of the one given.
Near3(p, a, b, c) ==
    /\ RLe(RAbs(RSub(p[1], a)), SK_ScalarNearlyZero)
    /\ RLe(RAbs(RSub(p[2], b)), SK_ScalarNearlyZero)
    /\ RLe(RAbs(RSub(p[3], c)), SK_ScalarNearlyZero)

\* C9 as stated: the optimizer drops the leftmost stop for positions exactly
\* {0,0,1} and the rightmost for exactly {0,1,1} (if the tile mode is repeat
\* or mirror or the coincident stops have one color), and returns every other
\* input unchanged.
C9_OptimizerExactPositions ==
    pc = "optimized" =>
        desc = OptimizedAs(rawDesc, rawDesc.fPos = <<Zero, Zero, One>>,
                           rawDesc.fPos = <<Zero, One, One>>)

\* C9 amended: the same, with positions each within SK_ScalarNearlyZero of
\* {0,0,1}, and otherwise each within SK_ScalarNearlyZero of {0,1,1}.
C9_OptimizerNearPositions ==
    pc = "optimized" =>
        desc = OptimizedAs(rawDesc, Near3(rawDesc.fPos, Zero, Zero, One),
                           Near3(rawDesc.fPos, Zero, One, One))

\* C9's case: [c, c, c'] at {0,0,1} in clamp mode becomes the 2 stops [c, c'].
C9_Witness ==
    /\ pc = "optimized"
    /\ rawDesc.fTileMode = "kClamp"
    /\ rawDesc.fPos = <<Zero, Zero, One>>
    /\ rawDesc.fColors[1] = rawDesc.fColors[2]
    /\ rawDesc.fColors[2] # rawDesc.fColors[3]
    /\ desc.fCount = 2
    /\ desc.fColors = <<rawDesc.fColors[1], rawDesc.fColors[3]>>
    /\ desc.fPos = <<Zero, One>>

\* C10: every position the constructor stores for a caller's position is
\* max(the position stored before it, min(the caller's position, 1)), with 0
\* before the first; and the constructor builds a shader, with a position for
\* every color, from every descriptor.
C10_PinnedToPrevious ==
    /\ pc \in {"raw", "optimized"} =>
          LET sh == SkGradientShaderBase(desc)
          IN  /\ sh.fColorCount >= desc.fCount
              /\ Len(sh.fOrigColors4f) = sh.fColorCount
              /\ desc.fPos # nullptr => Len(sh.fPosStorage) = sh.fColorCount
    /\ Constructed /\ desc.fPos # nullptr =>
          LET st  == shader.fPosStorage
              off == IF desc.fPos[1] # Zero THEN 1 ELSE 0
          IN  \A k \in 1..desc.fCount :
                 st[k + off] = RMax(IF k + off = 1 THEN Zero ELSE st[k + off - 1],
                                    RMin(desc.fPos[k], One))

\* C10's case: the caller's positions {0.5, -0.5, 1.5} are stored as
\* {0, 0.5, 0.5, 1, 1}.
C10_Witness ==
    /\ Constructed
    /\ desc.fPos = <<Half, <<-1, 2>>, <<3, 2>>>>
    /\ shader.fPosStorage = <<Zero, Half, Half, One, One>>

\* The number of stops the constructor inserts before (after) the caller's.
InsertedFirst == IF desc.fPos # nullptr /\ desc.fPos[1] # Zero THEN 1 ELSE 0
InsertedLast == IF desc.fPos # nullptr /\ desc.fPos[desc.fCount] # One THEN 1 ELSE 0

\* C11: given positions whose first is not exactly 0 the constructor stores a
\* leading stop of the caller's first color at position 0, given positions
\* whose last is not exactly 1 a trailing stop of the caller's last color at
\* position 1; the stored count is the caller's plus the stops inserted, at
\* most 2 more, and the caller's colors are stored in order between them.
C11_BoundaryStopsInserted ==
    Constructed =>
        LET n == desc.fCount
            c == shader.fOrigColors4f
        IN  /\ shader.fColorCount = n + InsertedFirst + InsertedLast
            /\ shader.fColorCount <= n + 2
            /\ Len(c) = shader.fColorCount
            /\ \A k \in 1..n : c[k + InsertedFirst] = desc.fColors[k]
            /\ InsertedFirst = 1 =>
                  c[1] = desc.fColors[1] /\ shader.fPosStorage[1] = Zero
            /\ InsertedLast = 1 =>
                  /\ c[shader.fColorCount] = desc.fColors[n]
                  /\ shader.fPosStorage[shader.fColorCount] = One

\* C11's case: two stops of different colors, the first within tolerance of
\* 0 but not 0 and the second not 1, are stored as four.
C11_Witness ==
    /\ Constructed
    /\ desc.fCount = 2
    /\ desc.fColors[1] # desc.fColors[2]
    /\ desc.fPos = <<SK_ScalarNearlyZero, Half>>
    /\ shader.fColorCount = 4
    /\ shader.fOrigColors4f =
          <<desc.fColors[1], desc.fColors[1], desc.fColors[2], desc.fColors[2]>>

\* a and b are equal within the tolerance of SkScalarNearlyEqual.
WithinTolerance(a, b) == RLe(RAbs(RSub(a, b)), SK_ScalarNearlyZero)

\* Every gap between consecutive pinned positions equals the first gap within
\* tolerance.
GapsUniform(st) ==
    \A k \in 1..(Len(st) - 1) :
        WithinTolerance(RSub(st[k + 1], st[k]), RSub(st[2], st[1]))

C13_ValidGradientExactly ==
    call.fn = "ValidGradient" =>
        (call.ret = TRUE <=> (/\ call.colors # nullptr
                              /\ call.count >= 1
                              /\ call.mode \in 0..3))

\* C13's case: one color, no positions, a valid tile mode: accepted.
C13_Witness ==
    /\ call.fn = "ValidGradient"
    /\ call.colors # nullptr
    /\ call.count = 1
    /\ call.pos = nullptr
    /\ call.mode = 0
    /\ call.ret = TRUE

TwoStops == shader.fColorCount = 2 /\ shader.fOrigPos = nullptr

\* The parameter of the pixel after the tile mode.
TiledT == ProgramTile(shader.fTileMode, pixelT)

\* C14: for exactly 2 stops without positions both backends store
\* F = color[1] - color[0] and B = color[0] and give the pixel
\* clamp01(t) * F + B, so color[0] at t = 0 and color[1] at t = 1; the general
\* path gives its first color at t = 0 (no hard stop there) and its last at
\* t = 1 too.
C14_TwoStopPath ==
    LET F == CSub(StopColors[2], StopColors[1])
        B == StopColors[1]
    IN  /\ PipelineBuilt /\ TwoStops =>
              /\ LookupStage.op = "evenly_spaced_2_stop_gradient"
              /\ LookupStage.ctx.f = F
              /\ LookupStage.ctx.b = B
        /\ ProgramBuilt /\ TwoStops =>
              program.twoStop /\ program.F = F /\ program.B = B
        /\ Drawn /\ TwoStops =>
              /\ stageOut.lookup = CMad(clamp01(TiledT), F, B)
              /\ progOut.lookup = CMad(clamp01(TiledT), F, B)
              /\ TiledT = Zero =>
                    stageOut.lookup = StopColors[1] /\ progOut.lookup = StopColors[1]
              /\ TiledT = One =>
                    stageOut.lookup = StopColors[2] /\ progOut.lookup = StopColors[2]
        /\ Drawn /\ ~TwoStops =>
              /\ TiledT = Zero /\ (shader.fOrigPos = nullptr \/ shader.fOrigPos[2] # Zero) =>
                    stageOut.lookup = StopColors[1] /\ progOut.lookup = StopColors[1]
              /\ TiledT = One =>
                    /\ stageOut.lookup = StopColors[shader.fColorCount]
                    /\ progOut.lookup = StopColors[shader.fColorCount]

\* C14's case: two stops of different colors, no positions, drawn at t = 1
\* under clamp: both backends give the second color.
C14_Witness ==
    /\ Drawn
    /\ TwoStops
    /\ shader.fTileMode = "kClamp"
    /\ StopColors[1] # StopColors[2]
    /\ pixelT = One
    /\ stageOut.lookup = StopColors[2]
    /\ progOut.lookup = StopColors[2]

\* The 50/50 blend of two colors.
Blend(a, b) == [k \in Chans(a) |-> RMul(Half, RAdd(a[k], b[k]))]

\* C15: the evenly spaced table of n stops has, for segment i (from 0),
\* F = (c_{i+1} - c_i) * gapCount and B = c_i - F * (i / gapCount) with
\* gapCount = n - 1, so that t*F + B is c_i at i/gapCount and c_{i+1} at
\* (i+1)/gapCount, and after the last segment the constant last color with
\* scale 0; with 3 stops a pixel at t = 1/4 gets the 50/50 blend of the
\* first two colors.
C15_EvenlySpacedTable ==
    PipelineBuilt /\ LookupStage.op = "evenly_spaced_gradient" =>
        LET ctx == LookupStage.ctx
            n   == shader.fColorCount
            gapCount == IntToScalar(n - 1)
        IN  /\ ctx.stopCount = n
            /\ \A i \in 0..(n - 2) :
                  LET F  == ctx.fs[i + 1]
                      B  == ctx.bs[i + 1]
                      ci == StopColors[i + 1]
                      cj == StopColors[i + 2]
                  IN  /\ F = CMulS(CSub(cj, ci), gapCount)
                      /\ B = CSub(ci, CMulS(F, Rat(i, n - 1)))
                      /\ CMad(Rat(i, n - 1), F, B) = ci
                      /\ CMad(Rat(i + 1, n - 1), F, B) = cj
            /\ ctx.fs[n] = CZero(StopColors[n])
            /\ ctx.bs[n] = StopColors[n]
            /\ Drawn /\ n = 3 /\ TiledT = <<1, 4>> =>
                  stageOut.lookup = Blend(StopColors[1], StopColors[2])

\* C15's case: three evenly spaced stops, the first two of different colors,
\* under clamp, drawn at t = 1/4.
C15_Witness ==
    /\ Drawn
    /\ LookupStage.op = "evenly_spaced_gradient"
    /\ shader.fColorCount = 3
    /\ shader.fTileMode = "kClamp"
    /\ StopColors[1] # StopColors[2]
    /\ pixelT = <<1, 4>>
    /\ stageOut.lookup = Blend(StopColors[1], StopColors[2])

\* Stops i and i+1 (C indices) are strictly apart.
Strict(i) == RLt(getPos(shader, i), getPos(shader, i + 1))

\* The C index of the left stop of the j-th pair of adjacent stops strictly
\* apart, counting from 1 among the stops lo..hi.
StrictPair(lo, hi, j) ==
    CHOOSE i \in lo..(hi - 1) :
        Strict(i) /\ Cardinality({ m \in lo..i : Strict(m) }) = j

\* F and B are the scale and the bias of the segment from stop i to stop i+1.
SegmentOf(i, F, B) ==
    LET t_l == getPos(shader, i)
        t_r == getPos(shader, i + 1)
        c_l == StopColors[i + 1]
        c_r == StopColors[i + 2]
    IN  /\ F = CDivS(CSub(c_r, c_l), RSub(t_r, t_l))
        /\ B = CSub(c_l, CMulS(F, t_l))
        /\ CMad(t_l, F, B) = c_l
        /\ CMad(t_r, F, B) = c_r

\* C16: with stored positions, the table of either backend holds, for every
\* pair of adjacent stops with t_l < t_r, in order, the breakpoint t_l with
\* F = (c_r - c_l)/(t_r - t_l) and B = c_l - F*t_l, so that t*F + B is c_l
\* at t_l and c_r at t_r; before them the constant first color and after
\* them, from the last position on, the constant last color, both with
\* scale 0.
C16_ArbitraryPositionsTable ==
    LET n == shader.fColorCount
    IN  /\ PipelineBuilt /\ LookupStage.op = "gradient" =>
              LET ctx == LookupStage.ctx
                  lo  == FirstStop(shader)
                  hi  == LastStop(shader)
              IN  /\ ctx.fs[1] = CZero(StopColors[1])
                  /\ ctx.bs[1] = StopColors[1]
                  /\ \A j \in 1..(ctx.stopCount - 2) :
                        /\ ctx.ts[j + 1] = getPos(shader, StrictPair(lo, hi, j))
                        /\ SegmentOf(StrictPair(lo, hi, j), ctx.fs[j + 1], ctx.bs[j + 1])
                  /\ ctx.ts[ctx.stopCount] = getPos(shader, hi)
                  /\ ctx.fs[ctx.stopCount] = CZero(StopColors[n])
                  /\ ctx.bs[ctx.stopCount] = StopColors[n]
        /\ ProgramBuilt /\ ~program.twoStop /\ shader.fOrigPos # nullptr =>
              LET last == Len(program.stops)
              IN  /\ program.fb[1] = [f |-> CZero(StopColors[1]), b |-> StopColors[1]]
                  /\ \A j \in 1..(last - 1) :
                        /\ program.stops[j] = getPos(shader, StrictPair(0, n - 1, j))
                        /\ SegmentOf(StrictPair(0, n - 1, j),
                                     program.fb[j + 1].f, program.fb[j + 1].b)
                  /\ program.stops[last] = getPos(shader, n - 1)
                  /\ program.fb[last + 1] =
                        [f |-> CZero(StopColors[n]), b |-> StopColors[n]]

\* C16's case: stops at {0, 1/4, 1} with different adjacent colors; both
\* tables hold two segments between their constant entries.
C16_Witness ==
    /\ PipelineBuilt /\ ProgramBuilt
    /\ shader.fOrigPos = <<Zero, <<1, 4>>, One>>
    /\ StopColors[1] # StopColors[2]
    /\ StopColors[2] # StopColors[3]
    /\ LookupStage.ctx.stopCount = 4
    /\ Len(program.stops) = 3

\* The color a backend returns for the color its lookup computed.
Output(lookup) ==
    IF ~shader.fInPremul /\ ~shader.fColorsAreOpaque THEN Premul(lookup) ELSE lookup

\* C17: under decal a pixel with t outside [0,1] is masked in both backends
\* and its output is all zero; a pixel with t in [0,1], 0 and 1 included, is
\* not masked and keeps its color.
C17_DecalMasksOutside ==
    Drawn /\ shader.fTileMode = "kDecal" =>
        IF RLt(pixelT, Zero) \/ RGt(pixelT, One)
        THEN /\ ~stageOut.mask /\ ~progOut.mask
             /\ stageOut.color = <<Zero, Zero>>
             /\ progOut.color = <<Zero, Zero>>
        ELSE /\ stageOut.mask /\ progOut.mask
             /\ stageOut.color = Output(stageOut.lookup)
             /\ progOut.color = Output(progOut.lookup)

\* C17's case: two stops [c, c'] under decal drawn at t = 3/2: masked, all
\* zero, in both backends.
C17_Witness ==
    /\ Drawn
    /\ shader.fTileMode = "kDecal"
    /\ TwoStops
    /\ StopColors[1] # StopColors[2]
    /\ pixelT = <<3, 2>>
    /\ ~stageOut.mask /\ ~progOut.mask
    /\ stageOut.color = <<Zero, Zero>>
    /\ progOut.color = <<Zero, Zero>>

\* |((t - 1) - 2*floor((t - 1)/2)) - 1|
TriangleWave(t) ==
    LET A == RSub(t, One)
    IN  RAbs(RSub(RSub(A, RMul(Two, RFloor(RDiv(A, Two)))), One))

\* C18: under mirror the parameter both lookups are given is
\* |((t-1) - 2*floor((t-1)/2)) - 1|; it lies in [0,1], is t for t in [0,1]
\* and 2 - t for t in [1,2], and is the same for t + 2 and for t - 2.
C18_MirrorTriangleWave ==
    Drawn /\ shader.fTileMode = "kMirror" =>
        /\ progOut.t = TriangleWave(pixelT)
        /\ stageOut.t = TriangleWave(pixelT)
        /\ RLe(Zero, progOut.t) /\ RLe(progOut.t, One)
        /\ RLe(Zero, pixelT) /\ RLe(pixelT, One) => progOut.t = pixelT
        /\ RLe(One, pixelT) /\ RLe(pixelT, Two) => progOut.t = RSub(Two, pixelT)
        /\ \A d \in {RNeg(Two), Two} :
              /\ onProgram(shader, program, RAdd(pixelT, d)).t = progOut.t
              /\ RunPipeline(pipeline, RAdd(pixelT, d)).t = stageOut.t

\* C18's case: under mirror t = 3/2 is folded back to 1/2 and t = -1/2
\* likewise.
C18_Witness ==
    /\ Drawn
    /\ shader.fTileMode = "kMirror"
    /\ pixelT = <<3, 2>>
    /\ progOut.t = Half
    /\ stageOut.t = Half
    /\ onProgram(shader, program, <<-1, 2>>).t = Half

\* C19: under repeat the parameter both lookups are given is t - floor(t),
\* which lies in [0,1) for every t, negative t included; two stops drawn at
\* t = 3/2 are looked up at 1/2 and give the 50/50 blend of the two colors.
C19_RepeatFraction ==
    Drawn /\ shader.fTileMode = "kRepeat" =>
        /\ progOut.t = RSub(pixelT, RFloor(pixelT))
        /\ stageOut.t = RSub(pixelT, RFloor(pixelT))
        /\ RLe(Zero, progOut.t) /\ RLt(progOut.t, One)
        /\ TwoStops /\ pixelT = <<3, 2>> =>
              /\ progOut.t = Half
              /\ progOut.lookup = Blend(StopColors[1], StopColors[2])
              /\ stageOut.lookup = Blend(StopColors[1], StopColors[2])

\* C19's case: two stops of different colors under repeat, drawn at t = 3/2.
C19_Witness ==
    /\ Drawn
    /\ shader.fTileMode = "kRepeat"
    /\ TwoStops
    /\ StopColors[1] # StopColors[2]
    /\ pixelT = <<3, 2>>
    /\ progOut.t = Half
    /\ progOut.lookup = Blend(StopColors[1], StopColors[2])

\* The integral over [0,1] of the piecewise-linear gradient through the stops
\* (pos[k], colors[k]), k = 1..n: the sum of 0.5 * (c_k + c_k+1) * (p_k+1 - p_k).
RECURSIVE IntegralFrom(_, _, _, _)
IntegralFrom(colors, pos, k, acc) ==
    IF k >= Len(colors)
    THEN acc
    ELSE IntegralFrom(colors, pos, k + 1,
                      CAddScaled(acc, RMul(Half, RSub(pos[k + 1], pos[k])),
                                 [j \in Chans(acc) |->
                                     RAdd(IntToScalar(colors[k][j]),
                                          IntToScalar(colors[k + 1][j]))]))

\* The gradient the constructor would store for the arguments of the call:
\* its pinned positions, with the stops it inserts at 0 and 1.
StoredForCall == 
    SkGradientShaderBase(Descriptor(call.colors, call.pos, call.count,
                                    SkTileMode(call.mode), FALSE))

\* The average color was computed for a gradient with caller positions.
AveragedWithPos ==
    /\ call.fn = "MakeDegenerateGradient"
    /\ call.mode \in {1, 2}
    /\ call.count >= 2
    /\ call.pos # nullptr

\* C21: whatever the caller's positions, average_gradient_color returns the
\* integral over [0,1] of the gradient the constructor would store for them
\* (pinned positions, constant before the first and after the last); if every
\* color is c the result is c.
C21_AverageMatchesConstructor ==
    AveragedWithPos =>
        /\ call.ret.color = IntegralFrom(StoredForCall.fOrigColors4f,
                                         StoredForCall.fPosStorage, 1, <<Zero, Zero>>)
        /\ (\A k \in 1..call.count : call.colors[k] = call.colors[1])
              => call.ret.color = ToScalars(call.colors[1])

\* The average color was computed for a gradient without positions.
AveragedWithoutPos ==
    /\ call.fn = "MakeDegenerateGradient"
    /\ call.mode \in {1, 2}
    /\ call.count >= 2
    /\ call.pos = nullptr

\* The sum over the count - 1 segments of the sum of the two end colors of each.
RECURSIVE EndColorSum(_, _)
EndColorSum(colors, k) ==
    IF k = 0 THEN <<Zero, Zero>>
    ELSE CAddScaled(CAddScaled(EndColorSum(colors, k - 1), One, ToScalars(colors[k])),
                    One, ToScalars(colors[k + 1]))

\* C22: with positions absent the average color is the sum over the
\* colorCount - 1 segments of 1/(colorCount - 1) times the mean of the
\* segment's two end colors; for two colors it is their 50/50 blend.
C22_AverageWithoutPositions ==
    AveragedWithoutPos =>
        /\ call.ret.color = CDivS(EndColorSum(call.colors, call.count - 1),
                                  IntToScalar(2 * (call.count - 1)))
        /\ call.count = 2 =>
              call.ret.color = CMulS(CAddScaled(ToScalars(call.colors[1]), One,
                                                ToScalars(call.colors[2])), Half)

\* C22's case: two different colors without positions, averaged for repeat.
C22_Witness ==
    /\ AveragedWithoutPos
    /\ call.count = 2
    /\ call.colors = << <<0, 1>>, <<2, 0>> >>
    /\ call.ret.color = <<One, Half>>

\* The arbitrary-position table built from all the stored stops, none skipped.
AllStopsStage(sh) ==
    LET pmColors == SkColor4fXformer(sh.fOrigColors4f, sh.fInPremul)
        ctx0 == [add_const_color(EmptyCtx(sh), 0, pmColors[1]) EXCEPT !.stopCount = 1]
        done == PosLoop(sh.fOrigPos, pmColors, 0, sh.fColorCount - 1,
                        sh.fOrigPos[1], pmColors[1], ctx0)
        ctx1 == [done.ctx EXCEPT !.ts = Put(done.ctx.ts, done.ctx.stopCount, done.t_l)]
    IN  [op  |-> "gradient",
         ctx |-> [add_const_color(ctx1, ctx1.stopCount, done.c_l)
                    EXCEPT !.stopCount = ctx1.stopCount + 1]]

\* C29: in the arbitrary-position path of onAppendStages the table built with
\* the first stop skipped when the first two colors are equal, and the last
\* stop skipped when the last two are, gives every pixel the color the table
\* built from all the stops gives it.
C29_SkippedStopsSameColor ==
    Drawn /\ LookupStage.op = "gradient" =>
        stageOut.lookup = RunStage(AllStopsStage(shader), Registers(stageOut.t)).lookup

\* C29's case: three stops of one color given by the caller at {0, 1/4, 1},
\* so that the first and the last stop are both skipped.
C29_Witness ==
    /\ Drawn
    /\ LookupStage.op = "gradient"
    /\ rawDesc.fCount = 3
    /\ shader.fColorCount = 3
    /\ FirstStop(shader) = 1
    /\ LastStop(shader) = 1
    /\ LookupStage.ctx.stopCount = 2
    /\ stageOut.lookup = StopColors[1]

\* C28: every constructed gradient with exactly 2 stored stops has positions
\* absent, whatever positions the caller gave (the assertion of onProgram's
\* 2-stop branch).
C28_TwoStopsHaveNoPositions ==
    Constructed /\ shader.fColorCount = 2 => shader.fOrigPos = nullptr

\* C28's case: the caller gave the positions {0, 1} of two stops and the
\* constructor, having pinned them, dropped them as uniform.
C28_Witness ==
    /\ Constructed
    /\ desc.fPos = <<Zero, One>>
    /\ shader.fColorCount = 2
    /\ shader.fPosStorage = <<Zero, One>>
    /\ shader.fOrigPos = nullptr

\* The fields of the flag word: bits 31 and 29, bits 8-11, bits 0-7.
FlagFields ==
    << kHasPosition_GSF, kHasColorSpace_GSF,
       WordShl(kTileModeMask_GSF, kTileModeShift_GSF),
       WordShl(kGradFlagsMask_GSF, kGradFlagsShift_GSF) >>

\* C23: unflatten of what Descriptor::flatten wrote succeeds and recovers the
\* tile mode, the interpolate-in-premul flag, the color count, the colors and
\* the positions (absent when absent); the position bit, the color-space bit,
\* the tile-mode field and the gradient-flags field of the flag word do not
\* overlap.
C23_FlattenRoundTrip ==
    /\ \A i, j \in 1..Len(FlagFields) :
          i # j => WordAnd(FlagFields[i], FlagFields[j]) = WordZero
    /\ call.fn = "unflatten" /\ ~call.truncated =>
          /\ call.ret
          /\ call.read.fTileMode = call.desc.fTileMode
          /\ call.read.fInPremul = call.desc.fInPremul
          /\ call.read.fCount = call.desc.fCount
          /\ call.read.fColors = SubSeq(call.desc.fColors, 1, call.desc.fCount)
          /\ (call.read.fPos = nullptr) <=> (call.desc.fPos = nullptr)
          /\ call.desc.fPos # nullptr =>
                call.read.fPos = SubSeq(call.desc.fPos, 1, call.desc.fCount)

\* C23's case: a descriptor with positions, a color space, decal and
\* interpolation in premul, written and read back.
C23_Witness ==
    /\ call.fn = "unflatten"
    /\ call.from = "Descriptor::flatten"
    /\ ~call.truncated
    /\ call.desc.fPos # nullptr
    /\ call.desc.fInPremul
    /\ call.desc.fTileMode = "kDecal"
    /\ call.colorSpace # nullptr
    /\ call.ret
    /\ call.read.fPos = call.desc.fPos
    /\ call.read.fTileMode = "kDecal"
    /\ call.read.fInPremul

C25_NoInverseNoStages ==
    /\ call.fn = "onAppendStages" =>
          /\ call.ret <=> call.matrix # "singular"
          /\ ~call.ret => pipeline = <<>>
          /\ call.ret => \E k \in 1..Len(pipeline) : pipeline[k].op \in LookupOps
    /\ call.fn = "onProgram" /\ call.matrix = "singular" =>
          /\ call.ret = "{}"
          /\ program = NoProgram

\* C25's case: onAppendStages has just been called with a singular matrix on
\* a shader whose onProgram had succeeded.
C25_Witness ==
    /\ call.fn = "onAppendStages"
    /\ call.matrix = "singular"
    /\ ~call.ret
    /\ pipeline = <<>>
    /\ ProgramBuilt

\* The operations of the tile modes.
TileOps == {"mirror_x_1", "repeat_x_1", "decal_x", "clamp_x_1"}

\* The places of an operation in the pipeline, and the place of the lookup.
Places(ops) == { k \in 1..Len(pipeline) : pipeline[k].op \in ops }
LookupPlace == CHOOSE k \in 1..Len(pipeline) : pipeline[k].op \in LookupOps

\* seed_shader, matrix, the tile mode's operations, one lookup, and after it
\* nothing but premul and check_decal_mask, at most one of each.
StagesInFamilies ==
    /\ pipeline[1].op = "seed_shader"
    /\ pipeline[2].op = "matrix"
    /\ Cardinality(Places(LookupOps)) = 1
    /\ \A k \in 3..(LookupPlace - 1) : pipeline[k].op \in TileOps
    /\ \A k \in (LookupPlace + 1)..Len(pipeline) :
          pipeline[k].op \in {"premul", "check_decal_mask"}
    /\ Cardinality(Places({"premul"})) <= 1
    /\ Cardinality(Places({"check_decal_mask"})) <= 1

Returned(out) ==
    LET c == IF ~shader.fInPremul /\ ~shader.fColorsAreOpaque
             THEN Premul(out.lookup) ELSE out.lookup
    IN  IF out.mask THEN c ELSE CZero(c)

\* C30: colorsAreOpaque is true exactly when every color the constructor was
\* given has alpha 1; isOpaque is true exactly when colorsAreOpaque holds and
\* the tile mode is not decal; each backend premultiplies the color it looked
\* up exactly when the interpolation is not in premul and colorsAreOpaque is
\* false.
C30_OpacityAndPremul ==
    /\ Constructed =>
          (shader.fColorsAreOpaque <=> \A k \in 1..desc.fCount : desc.fColors[k][2] = 1)
    /\ call.fn = "isOpaque" =>
          (call.ret <=> (shader.fColorsAreOpaque /\ shader.fTileMode # "kDecal"))
    /\ PipelineBuilt =>
          (Places({"premul"}) # {} <=> (~shader.fInPremul /\ ~shader.fColorsAreOpaque))
    /\ Drawn =>
          /\ stageOut.color = Returned(stageOut)
          /\ progOut.color = Returned(progOut)

\* C30's case: a gradient with a color that is not opaque, interpolated
\* unpremultiplied and drawn: the color returned is not the color looked up
\* but its premultiplied form.
C30_Witness ==
    /\ Drawn
    /\ ~shader.fInPremul
    /\ ~shader.fColorsAreOpaque
    /\ progOut.mask
    /\ Premul(progOut.lookup) # progOut.lookup
    /\ progOut.color = Premul(progOut.lookup)
    /\ stageOut.color = Premul(stageOut.lookup)

\* C27: once the shader is constructed no step of any thread, in whatever
\* order the threads' onAppendStages, onProgram, flatten, isOpaque and
\* commonAsAGradient calls and their steps interleave, changes the stored
\* colors, positions, count, tile mode or flags; the converted colors of an
\* evaluation are in that evaluation's own copy.
C27_StoredStateNeverChanges ==
    [][pc = "constructed" =>
          /\ shader' = shader
          /\ \A th \in Threads :
                call[th].at = "xform" /\ call'[th].at = "build" =>
                    call'[th].xformed = SkColor4fXformer(shader.fOrigColors4f,
                                                         shader.fInPremul)]_vars

\* C27's case: one thread has finished an onAppendStages while the other is
\* in the middle of an onProgram, each with its own premultiplied copy of the
\* colors, which differ from the stored ones; the stored colors are still
\* those the constructor was given.
C27_Witness ==
    /\ pc = "constructed"
    /\ shader.fInPremul
    /\ call["t1"].fn = "onAppendStages" /\ call["t1"].at = "done"
    /\ call["t2"].fn = "onProgram" /\ call["t2"].at = "build"
    /\ call["t1"].xformed = call["t2"].xformed
    /\ call["t2"].xformed # [k \in 1..shader.fColorCount |-> ToScalars(shader.fOrigColors4f[k])]
    /\ shader.fOrigColors4f = desc.fColors

====
